---- MODULE Spec2Model ----
(***************************************************************************)
(* Quality validation and AI orchestration of the component generator.     *)
(*                                                                         *)
(*   server/lib/quality-validation.ts   (src/unnamed/part_009, 1-344)      *)
(*   server/lib/qualityValidation.ts    (src/unnamed/part_009, 345-752)    *)
(*   server/lib/visualQualityAssurance.ts                                  *)
(*   server/lib/aiQualityEnhancement.ts                                    *)
(*       (src/server/__tests__/quality-validation.test.ts, 476-943)        *)
(*                                                                         *)
(* JavaScript numbers are modelled as exact fractions <<n, d>> in lowest   *)
(* terms with d > 0, extended with the IEEE-754 special values the code    *)
(* can produce: <<1, 0>> is Infinity, <<-1, 0>> is -Infinity and <<0, 0>>  *)
(* is NaN.  Rounding error of binary floating point is not modelled.       *)
(***************************************************************************)
EXTENDS Integers, Sequences, FiniteSets, TLC

VARIABLES
    providerPerformance,  \* AIProviderPerformance[]: the provider ledger
    observed,             \* history: the updateProviderPerformance calls made, in order
    strategies,           \* PromptStrategy[] catalog: id -> successMetrics
    strategyLog,          \* history: the updateStrategyPerformance calls made, in order
    requests,             \* in-flight generation requests (position and feedback data)
    context,              \* GenerationContext of the current selection request
    chosen,               \* id returned by selectOptimalPromptStrategy, or "none"
    code,                 \* the features of the code string under validation
    result                \* the value returned by the scorer, or NoResult

vars == <<providerPerformance, observed, strategies, strategyLog, requests,
          context, chosen, code, result>>

----------------------------------------------------------------------------
(* JavaScript number arithmetic                                            *)

Abs(n) == IF n < 0 THEN -n ELSE n

Sign(n) == IF n < 0 THEN -1 ELSE IF n > 0 THEN 1 ELSE 0

RECURSIVE GCD(_, _)
GCD(a, b) == IF b = 0 THEN a ELSE GCD(b, a % b)

\* the number n/d; a zero denominator gives Infinity, -Infinity or NaN (0/0)
Num(n, d) ==
    IF d = 0 THEN <<Sign(n), 0>>
    ELSE LET g == GCD(Abs(n), Abs(d))
             s == IF d < 0 THEN -1 ELSE 1
         IN  <<(s * n) \div g, (s * d) \div g>>

I(n) == <<n, 1>>

NaN == <<0, 0>>

Infinity == <<1, 0>>

Zero == <<0, 1>>

IsNaN(x) == x = NaN

IsFinite(x) == x[2] # 0

Add(a, b) ==
    IF IsNaN(a) \/ IsNaN(b) THEN NaN
    ELSE IF ~IsFinite(a) /\ ~IsFinite(b) THEN (IF a = b THEN a ELSE NaN)
    ELSE IF ~IsFinite(a) THEN a
    ELSE IF ~IsFinite(b) THEN b
    ELSE Num(a[1] * b[2] + b[1] * a[2], a[2] * b[2])

Mul(a, b) ==
    IF IsNaN(a) \/ IsNaN(b) THEN NaN
    ELSE IF ~IsFinite(a) \/ ~IsFinite(b)
         THEN <<Sign(a[1]) * Sign(b[1]), 0>>      \* 0 * Infinity is NaN
    ELSE Num(a[1] * b[1], a[2] * b[2])

Div(a, b) ==
    IF IsNaN(a) \/ IsNaN(b) THEN NaN
    ELSE IF ~IsFinite(a) /\ ~IsFinite(b) THEN NaN
    ELSE IF ~IsFinite(a) THEN <<a[1] * (IF b[1] < 0 THEN -1 ELSE 1), 0>>
    ELSE IF ~IsFinite(b) THEN Zero
    ELSE Num(a[1] * b[2], a[2] * b[1])             \* x/0 is +-Infinity, 0/0 is NaN

Sub(a, b) == Add(a, <<-b[1], b[2]>>)

\* a < b; every comparison with NaN is false
Lt(a, b) == ~IsNaN(a) /\ ~IsNaN(b) /\ a # b /\ a[1] * b[2] < b[1] * a[2]

Gt(a, b) == Lt(b, a)

\* Math.round: the nearest integer, halves towards +Infinity
MathRound(x) ==
    IF ~IsFinite(x) THEN x ELSE I((2 * x[1] + x[2]) \div (2 * x[2]))

\* Math.max(a, b)
MathMax(a, b) == IF IsNaN(a) \/ IsNaN(b) THEN NaN ELSE IF Lt(a, b) THEN b ELSE a

\* Math.min(a, b)
MathMin(a, b) == IF IsNaN(a) \/ IsNaN(b) THEN NaN ELSE IF Lt(b, a) THEN b ELSE a

\* x || 0 on a number: NaN and 0 are falsy
OrZero(x) == IF IsNaN(x) \/ x = Zero THEN Zero ELSE x

\* record[key] || 0 on a Record<string, number>: a missing key is undefined
Lookup(m, k) == IF k \in DOMAIN m THEN OrZero(m[k]) ELSE Zero

RECURSIVE SumSeq(_)
SumSeq(s) == IF s = <<>> THEN Zero ELSE Add(Head(s), SumSeq(Tail(s)))

\* the arithmetic mean of a non-empty sequence of numbers
Mean(s) == Div(SumSeq(s), I(Len(s)))

\* Array.prototype.find(x => x[field] === value) as an index: the first such i, or 0
FindIndex(s, field, value) ==
    IF \E i \in 1..Len(s) : s[i][field] = value
    THEN CHOOSE i \in 1..Len(s) :
             s[i][field] = value /\ \A j \in 1..(i - 1) : s[j][field] # value
    ELSE 0

----------------------------------------------------------------------------
(* Inputs                                                                  *)

\* the longest history of ledger updates explored
MaxUpdates == 3

Providers == {"vercel", "openai", "anthropic"}

ComponentTypes == {"form", "navigation", "interactive", "data-visualization",
                   "layout", "display"}

ComplexityLevels == {"simple", "medium", "complex"}

Score(cq, a, d, p, o) ==
    [codeQuality |-> cq, accessibility |-> a, designConsistency |-> d,
     performance |-> p, overall |-> o]

\* ComponentQualityScore values fed back after a generation
ScoreSamples == {Score(85, 80, 90, 75, 82), Score(70, 70, 70, 70, 70),
                 Score(40, 55, 60, 100, 55)}

\* the feedback inputs explored for the provider ledger
UpdateProviders == {"vercel", "openai"}

UpdateTypes == {"form", "navigation"}

\* (componentType, complexityLevel) pairs of the feedback explored
UpdateBuckets == {<<"form", "medium">>, <<"navigation", "medium">>, <<"form", "complex">>}

----------------------------------------------------------------------------
(* The code string under validation                                        *)
(*                                                                         *)
(* The validators read a code string only through substring tests, regular *)
(* expression matches, its length and the TypeScript compiler.  A code     *)
(* string is modelled by what those reads return: a record with one field  *)
(* per read.  Counts are numbers of matches.                               *)
(*   tsErrors, tsWarnings   pre-emit diagnostics by category               *)
(*   compilerThrows         the compiler raises after those diagnostics    *)
(*   syntaxErrors           sourceFile.parseDiagnostics                    *)
(*   practiceWarnings       findings of the best-practice walk             *)
(*   lines, length          code.split('\n').length, code.length           *)
(*   tailwindClasses        the tokens of the className="..." attributes   *)
(***************************************************************************)

\* a ValidationError, without its message and position
Err(type, severity, rule) == [type |-> type, severity |-> severity, rule |-> rule]

\* n copies of ValidationError e
Repeat(e, n) == [i \in 1..n |-> e]

\* errors.filter(e => e.severity === severity).length
CountSeverity(errors, severity) ==
    Cardinality({i \in 1..Len(errors) : errors[i].severity = severity})

\* a boolean as 0 or 1
B(cond) == IF cond THEN 1 ELSE 0

\* Math.max(0, n) and Math.min(100, n) on integers
Max0(n) == IF n < 0 THEN 0 ELSE n

Min100(n) == IF n > 100 THEN 100 ELSE n

\* Math.round(n / d) for integers n >= 0 and d > 0, as an integer
RoundDiv(n, d) == MathRound(Num(n, d))[1]

\* the tokens of tailwindClasses that satisfy a test of the validators
Tokens(c, matching) == {c.tailwindClasses[i] : i \in 1..Len(c.tailwindClasses)} \cap matching

\* substring and regular-expression reads that className tokens also satisfy
HasClassName(c) == c.tailwindClasses # <<>> \/ c.classNameExpr

HasSpacingText(c) == c.spacingText \/ Tokens(c, {"p-4", "mx-2"}) # {}

HasColorText(c) == c.colorText \/ Tokens(c, {"text-white", "bg-gray-900", "bg-white"}) # {}

HasRoundedText(c) == c.roundedText \/ Tokens(c, {"rounded-lg"}) # {}

InlineObjects(c) == c.inlineStyles + c.otherInlineObjects

EventHandlers(c) == c.otherHandlers \/ c.onClicks > 0

HookCalls(c) ==
    c.otherHooks \/ c.usesState \/ c.usesEffect \/ c.usesMemo \/ c.usesCallback

HasAlt(c) == c.imgsWithAlt > 0

HasAria(c) == c.otherAria \/ c.hasAriaLabel

----------------------------------------------------------------------------
(* quality-validation.ts                                                   *)

\* the try block spans the diagnostics loop: an exception keeps the entries
\* pushed before it and the catch pushes one more
validateTypeScript(c) ==
    LET collected ==
            Repeat(Err("typescript", "error", ""), c.tsErrors)
            \o Repeat(Err("typescript", "warning", ""), c.tsWarnings)
            \o (IF c.compilerThrows THEN <<Err("typescript", "error", "")>> ELSE <<>>)
        errors == SelectSeq(collected, LAMBDA e : e.severity = "error")
    IN  [errors |-> errors, isValid |-> Len(errors) = 0]

validateReactBestPractices(c) ==
    (IF c.domAccess THEN <<Err("eslint", "warning", "")>> ELSE <<>>)
    \o (IF c.mapCall /\ ~c.keyAttr THEN <<Err("eslint", "warning", "")>> ELSE <<>>)
    \o (IF c.inlineHandlers > 3 THEN <<Err("eslint", "info", "")>> ELSE <<>>)

\* one 15-point deduction however many images lack alt
validateAccessibilityLegacy_OncePerCode(c) ==
    LET imgs    == Repeat(Err("accessibility", "error", ""), c.imgsWithoutAlt)
        labels  == IF c.inputs > c.labels
                   THEN <<Err("accessibility", "warning", "")>> ELSE <<>>
        sem     == IF c.hasDiv /\ ~c.hasMain /\ ~c.hasSection /\ ~c.hasArticle
                   THEN <<Err("accessibility", "info", "")>> ELSE <<>>
        buttons == IF c.onClicks > c.buttons
                   THEN <<Err("accessibility", "warning", "")>> ELSE <<>>
        score   == 100 - 15 * B(c.imgsWithoutAlt > 0) - 10 * Len(labels) - 5 * Len(sem)
                       - 10 * Len(buttons)
    IN  [errors |-> imgs \o labels \o sem \o buttons, score |-> Max0(score)]

\* the legacy validateAccessibility(code)
validateAccessibilityLegacy(c) ==
    LET imgs    == Repeat(Err("accessibility", "error", ""), c.imgsWithoutAlt)
        labels  == IF c.inputs > c.labels
                   THEN <<Err("accessibility", "warning", "")>> ELSE <<>>
        sem     == IF c.hasDiv /\ ~c.hasMain /\ ~c.hasSection /\ ~c.hasArticle
                   THEN <<Err("accessibility", "info", "")>> ELSE <<>>
        buttons == IF c.onClicks > c.buttons
                   THEN <<Err("accessibility", "warning", "")>> ELSE <<>>
        score   == 100 - 15 * c.imgsWithoutAlt - 10 * Len(labels) - 5 * Len(sem)
                       - 10 * Len(buttons)
    IN  [errors |-> imgs \o labels \o sem \o buttons, score |-> Max0(score)]

calculateCodeQuality(c, tsValidation) ==
    LET reactErrors == validateReactBestPractices(c)
        score == 100
                 - (IF ~tsValidation.isValid THEN Len(tsValidation.errors) * 10 ELSE 0)
                 - (IF c.lines > 200 THEN 15 ELSE IF c.lines > 100 THEN 5 ELSE 0)
                 - CountSeverity(reactErrors, "error") * 10
                 - CountSeverity(reactErrors, "warning") * 5
                 - (IF ~c.hasFunction /\ ~c.hasConst THEN 10 ELSE 0)
                 - (IF ~c.hasRender THEN 5 ELSE 0)
    IN  Max0(Min100(score))

calculateDesignConsistency(c) ==
    Max0(100 - (IF ~HasClassName(c) THEN 20 ELSE 0)
             - (IF ~HasSpacingText(c) THEN 15 ELSE 0)
             - (IF ~HasColorText(c) THEN 10 ELSE 0)
             - (IF ~c.responsivePrefix THEN 10 ELSE 0)
             - (IF ~HasRoundedText(c) /\ ~c.shadowText THEN 10 ELSE 0))

\* without the Math.min(100, .) of the final clamp
calculatePerformance_NoUpperClamp(c) ==
    Max0(100 - (IF c.jsonCalls THEN 15 ELSE 0)
             - (IF InlineObjects(c) > 3 THEN 10 ELSE 0)
             - (IF c.arrayOps THEN 5 ELSE 0)
             + (IF c.usesMemo \/ c.usesCallback THEN 10 ELSE 0))

calculatePerformance(c) ==
    Max0(Min100(100 - (IF c.jsonCalls THEN 15 ELSE 0)
                    - (IF InlineObjects(c) > 3 THEN 10 ELSE 0)
                    - (IF c.arrayOps THEN 5 ELSE 0)
                    + (IF c.usesMemo \/ c.usesCallback THEN 10 ELSE 0)))

\* Math.round((cq + a + d + p) / 4) in place of the weighted sum
WeightedOverall_Unweighted(cq, a, d, p) == RoundDiv(cq + a + d + p, 4)

\* Math.round(cq * 0.4 + a * 0.3 + d * 0.2 + p * 0.1)
WeightedOverall(cq, a, d, p) == RoundDiv(4 * cq + 3 * a + 2 * d + p, 10)

\* Math.round((cq + a + d + p) / 4)
MeanOverall(cq, a, d, p) == RoundDiv(cq + a + d + p, 4)

validateGeneratedCode(c) ==
    LET tsValidation == validateTypeScript(c)
        reactErrors  == validateReactBestPractices(c)
        accessibilityValidation == validateAccessibilityLegacy(c)
        errors == tsValidation.errors \o reactErrors \o accessibilityValidation.errors
        codeQuality == calculateCodeQuality(c, tsValidation)
        accessibility == accessibilityValidation.score
        designConsistency == calculateDesignConsistency(c)
        performance == calculatePerformance(c)
    IN  [path |-> "validateGeneratedCode",
         isValid |-> tsValidation.isValid /\ CountSeverity(errors, "error") = 0,
         errors |-> errors,
         qualityScore |->
             Score(codeQuality, accessibility, designConsistency, performance,
                   WeightedOverall(codeQuality, accessibility, designConsistency,
                                   performance))]

----------------------------------------------------------------------------
(* visualQualityAssurance.ts                                               *)

validateVisualConsistency(c) ==
    LET spacing == Cardinality(Tokens(c, {"p-4"})) + c.extraSpacingValues
        radius  == Cardinality(Tokens(c, {"rounded-lg"})) + c.extraRadiusValues
        schemes == Cardinality(Tokens(c, {"bg-gray-900"})) + c.extraColorSchemes
        sizes   == c.textSizes
        structured == \/ c.structureWords \/ c.hasMain \/ c.hasSection \/ c.hasArticle
                      \/ c.hasNav \/ c.hasHeader \/ c.hasFooter
                      \/ Tokens(c, {"flex"}) # {}
        issues  ==
            (IF spacing > 8 THEN <<Err("design", "warning", "spacing-consistency")>> ELSE <<>>)
            \o (IF radius > 4
                THEN <<Err("design", "warning", "border-radius-consistency")>> ELSE <<>>)
            \o (IF schemes > 4
                THEN <<Err("design", "warning", "color-scheme-consistency")>> ELSE <<>>)
            \o (IF sizes > 6
                THEN <<Err("design", "warning", "typography-consistency")>> ELSE <<>>)
            \o (IF ~structured
                THEN <<Err("design", "info", "component-structure")>> ELSE <<>>)
        score   == 100 - 10 * B(spacing > 8) - 8 * B(radius > 4) - 12 * B(schemes > 4)
                       - 10 * B(sizes > 6) - 5 * B(~structured)
    IN  [score |-> Max0(score), issues |-> issues]

RESPONSIVE_BREAKPOINTS ==
    << [name |-> "mobile-sm", width |-> 320, deviceType |-> "mobile"],
       [name |-> "mobile-lg", width |-> 414, deviceType |-> "mobile"],
       [name |-> "tablet", width |-> 768, deviceType |-> "tablet"],
       [name |-> "desktop-sm", width |-> 1024, deviceType |-> "desktop"],
       [name |-> "desktop-lg", width |-> 1440, deviceType |-> "desktop"] >>

\* the issues of one breakpoint
BreakpointIssues(c, bp) ==
    LET mobile == bp.deviceType = "mobile"
        hasButtons == c.buttons > 0 \/ c.onClicks > 0
        touchFriendly == c.touchTargets \/ Tokens(c, {"p-4"}) # {}
    IN  (IF ~c.responsivePrefix /\ bp.deviceType # "desktop"
         THEN <<Err("design", "warning", "responsive-design")>> ELSE <<>>)
        \o (IF c.fixedWidths /\ mobile
            THEN <<Err("design", "warning", "mobile-friendly-widths")>> ELSE <<>>)
        \o (IF c.smallText /\ mobile
            THEN <<Err("accessibility", "warning", "mobile-text-size")>> ELSE <<>>)
        \o (IF hasButtons /\ mobile /\ ~touchFriendly
            THEN <<Err("accessibility", "warning", "touch-target-size")>> ELSE <<>>)
        \o (IF c.wideElements /\ bp.width < 768
            THEN <<Err("design", "warning", "horizontal-scroll")>> ELSE <<>>)

validateResponsiveDesign(c) ==
    [i \in 1..Len(RESPONSIVE_BREAKPOINTS) |->
        LET issues == BreakpointIssues(c, RESPONSIVE_BREAKPOINTS[i])
        IN  [breakpoint |-> RESPONSIVE_BREAKPOINTS[i].name,
             isValid |-> CountSeverity(issues, "error") = 0,
             issues |-> issues]]

\* every pair of the contrast table has a ratio below 4.5
validateColorContrast(c) ==
    Repeat(Err("accessibility", "error", "color-contrast"), c.lowContrastPairs)
    \o (IF c.customColors
        THEN <<Err("accessibility", "info", "custom-color-contrast")>> ELSE <<>>)

validateVisualQuality(c) ==
    [responsiveValidation |-> validateResponsiveDesign(c),
     colorContrastIssues |-> validateColorContrast(c),
     visualConsistencyScore |-> validateVisualConsistency(c).score]

\* r => r.issues flattened over the breakpoint results rs[i..]
RECURSIVE FlatIssues(_, _)
FlatIssues(rs, i) ==
    IF i > Len(rs) THEN <<>> ELSE rs[i].issues \o FlatIssues(rs, i + 1)

----------------------------------------------------------------------------
(* qualityValidation.ts                                                    *)

\* a catch block that pushes nothing
validateTypeScriptCode_SilentCatch(c) ==
    LET syntax   == Repeat(Err("typescript", "error", "typescript-syntax"), c.syntaxErrors)
        practice == Repeat(Err("best-practices", "warning", "practice"), c.practiceWarnings)
        thrown   == <<>>
        errors   == syntax \o practice
    IN  IF c.throwsAt = "parse" THEN [success |-> FALSE, errors |-> thrown]
        ELSE IF c.throwsAt = "walk" THEN [success |-> FALSE, errors |-> errors \o thrown]
        ELSE [success |-> CountSeverity(errors, "error") = 0, errors |-> errors]

\* c.throwsAt: where the parser or the best-practice walk raises ("never",
\* "parse": in createSourceFile, "walk": after the findings collected so far)
validateTypeScriptCode(c) ==
    LET syntax   == Repeat(Err("typescript", "error", "typescript-syntax"), c.syntaxErrors)
        practice == Repeat(Err("best-practices", "warning", "practice"), c.practiceWarnings)
        thrown   == <<Err("typescript", "error", "typescript-compilation")>>
        errors   == syntax \o practice
    IN  IF c.throwsAt = "parse" THEN [success |-> FALSE, errors |-> thrown]
        ELSE IF c.throwsAt = "walk" THEN [success |-> FALSE, errors |-> errors \o thrown]
        ELSE [success |-> CountSeverity(errors, "error") = 0, errors |-> errors]

analyzeComponent(c) ==
    LET componentType ==
            IF c.kwForm \/ c.inputs > 0 THEN "form"
            ELSE IF c.kwNavigation \/ c.hasNav THEN "navigation"
            ELSE IF c.kwInteractive \/ c.buttons > 0 \/ c.onClicks > 0 THEN "interactive"
            ELSE IF c.kwData THEN "data-visualization"
            ELSE IF c.kwLayout \/ Tokens(c, {"flex"}) # {} THEN "layout"
            ELSE "display"
        hasInteractivity == EventHandlers(c) \/ c.usesState \/ c.usesEffect
        usesHooks == HookCalls(c)
        hasAccessibilityFeatures ==
            HasAria(c) \/ c.hasRole \/ HasAlt(c) \/ c.hasTabIndex \/ c.hasHtmlFor
        complexityScore ==
            MathMin(I(100),
                    Add(Add(Add(Add(Num(c.length, 50), I(20 * B(hasInteractivity))),
                                I(15 * B(usesHooks))),
                            Num(Len(c.tailwindClasses), 2)),
                        I(10 * B(hasAccessibilityFeatures))))
    IN  [componentType |-> componentType,
         hasInteractivity |-> hasInteractivity,
         usesHooks |-> usesHooks,
         hasAccessibilityFeatures |-> hasAccessibilityFeatures,
         tailwindClasses |-> c.tailwindClasses,
         complexityScore |-> complexityScore]

\* analysis.tailwindClasses.some(cls => matching)
SomeClass(analysis, matching) ==
    \E i \in 1..Len(analysis.tailwindClasses) : analysis.tailwindClasses[i] \in matching

\* analysis.tailwindClasses.filter(cls => matching).length
CountClasses(analysis, matching) ==
    Cardinality({i \in 1..Len(analysis.tailwindClasses) :
                    analysis.tailwindClasses[i] \in matching})

validateAccessibility(c, analysis) ==
    LET semantic ==
            IF /\ ~c.hasMain /\ ~c.hasSection /\ ~c.hasArticle
               /\ ~c.hasNav /\ ~c.hasHeader /\ ~c.hasFooter
               /\ analysis.componentType # "display"
            THEN <<Err("accessibility", "warning", "semantic-html")>> ELSE <<>>
        aria ==
            IF analysis.hasInteractivity /\ ~analysis.hasAccessibilityFeatures
            THEN <<Err("accessibility", "error", "aria-attributes")>> ELSE <<>>
        imgs == Repeat(Err("accessibility", "error", "img-alt"), c.imgsWithoutAlt)
        labels ==
            IF /\ analysis.componentType = "form"
               /\ c.inputs > 0 /\ ~c.hasHtmlFor /\ ~c.hasAriaLabel
            THEN <<Err("accessibility", "error", "form-labels")>> ELSE <<>>
        contrast ==
            IF SomeClass(analysis, {"text-white"}) /\ ~SomeClass(analysis, {"bg-gray-900"})
            THEN <<Err("accessibility", "warning", "color-contrast")>> ELSE <<>>
        score == 100 - 10 * Len(semantic) - 20 * Len(aria) - 15 * Len(imgs)
                     - 15 * Len(labels) - 5 * Len(contrast)
    IN  [score |-> Max0(score), errors |-> semantic \o aria \o imgs \o labels \o contrast]

validateDesignConsistency(c, analysis) ==
    LET spacing ==
            IF CountClasses(analysis, {"p-4"}) = 0 /\ c.length > 100
            THEN <<Err("design", "warning", "spacing-utilities")>> ELSE <<>>
        theme ==
            IF CountClasses(analysis, {"bg-gray-900", "text-white"})
                  > CountClasses(analysis, {"bg-white"})
            THEN <<Err("design", "info", "light-theme-preference")>> ELSE <<>>
        radius ==
            IF /\ ~SomeClass(analysis, {"rounded-lg"})
               /\ analysis.componentType \in {"interactive", "form"}
            THEN <<Err("design", "warning", "border-radius")>> ELSE <<>>
        score == 100 - 10 * Len(spacing) - 5 * Len(theme) - 8 * Len(radius)
    IN  [score |-> Max0(score), errors |-> spacing \o theme \o radius]

validatePerformance(c, analysis) ==
    LET styles ==
            IF c.inlineStyles > 3
            THEN <<Err("performance", "warning", "inline-styles")>> ELSE <<>>
        size ==
            IF c.length > 2000
            THEN <<Err("performance", "warning", "component-size")>> ELSE <<>>
        memo ==
            IF /\ analysis.usesHooks /\ Gt(analysis.complexityScore, I(50))
               /\ ~c.usesMemo /\ ~c.usesCallback
            THEN <<Err("performance", "info", "memoization")>> ELSE <<>>
        score == 100 - 10 * Len(styles) - 15 * Len(size) - 5 * Len(memo)
    IN  [score |-> Max0(score), errors |-> styles \o size \o memo]

\* codeQuality of validateComponentQuality
CodeQualityOf(tsValidation) ==
    IF tsValidation.success
    THEN Max0(100 - Len(tsValidation.errors) * 10)
    ELSE Max0(50 - CountSeverity(tsValidation.errors, "error") * 15)

validateComponentQuality(c) ==
    LET analysis     == analyzeComponent(c)
        tsValidation == validateTypeScriptCode(c)
        accessibilityResult == validateAccessibility(c, analysis)
        designResult == validateDesignConsistency(c, analysis)
        performanceResult == validatePerformance(c, analysis)
        visualQuality == validateVisualQuality(c)
        allErrors == tsValidation.errors \o accessibilityResult.errors
                     \o designResult.errors \o performanceResult.errors
                     \o visualQuality.colorContrastIssues
                     \o FlatIssues(visualQuality.responsiveValidation, 1)
        codeQuality == CodeQualityOf(tsValidation)
        enhancedDesignScore ==
            RoundDiv(designResult.score + visualQuality.visualConsistencyScore, 2)
    IN  [path |-> "validateComponentQuality",
         isValid |-> tsValidation.success /\ CountSeverity(allErrors, "error") = 0,
         errors |-> allErrors,
         qualityScore |->
             Score(codeQuality, accessibilityResult.score, enhancedDesignScore,
                   performanceResult.score,
                   MeanOverall(codeQuality, accessibilityResult.score,
                               enhancedDesignScore, performanceResult.score))]

----------------------------------------------------------------------------
(* aiQualityEnhancement.ts: the provider ledger                            *)

\* a new entry that already counts one generation
NewProviderData_CountsItself(provider) ==
    [provider |-> provider,
     qualityMetrics |-> [avgQualityScore |-> Zero, avgCodeQuality |-> Zero,
                         avgAccessibility |-> Zero, avgDesignConsistency |-> Zero,
                         avgPerformance |-> Zero],
     componentTypePerformance |-> <<>>,
     complexityPerformance |-> <<>>,
     generationCount |-> 1]

NewProviderData(provider) ==
    [provider |-> provider,
     qualityMetrics |-> [avgQualityScore |-> Zero, avgCodeQuality |-> Zero,
                         avgAccessibility |-> Zero, avgDesignConsistency |-> Zero,
                         avgPerformance |-> Zero],
     componentTypePerformance |-> <<>>,
     complexityPerformance |-> <<>>,
     generationCount |-> 0]

\* (avg * generationCount + value) / newCount
RollingAverage_StaleWeight(avg, generationCount, value) ==
    Div(Add(Mul(avg, I(generationCount + 1)), I(value)), I(generationCount + 1))

RollingAverage(avg, generationCount, value) ==
    Div(Add(Mul(avg, I(generationCount)), I(value)), I(generationCount + 1))

\* Math.max(1, Math.round(newCount / Object.keys(record).length))
BucketCount(newCount, record) ==
    MathMax(I(1), MathRound(Div(I(newCount), I(Cardinality(DOMAIN record)))))

\* record with record[key] = (current * (count - 1) + overall) / count
BucketUpdate(record, key, newCount, overall) ==
    LET current == Lookup(record, key)
        count   == BucketCount(newCount, record)
        value   == Div(Add(Mul(current, Sub(count, I(1))), I(overall)), count)
    IN  [k \in DOMAIN record \cup {key} |-> IF k = key THEN value ELSE record[k]]

\* pushes a fresh entry even when the provider already has one
updateProviderPerformance_AlwaysNewEntry(provider, componentType, complexityLevel, qualityScore, ledger) ==
    LET found   == 0
        pushed  == IF found = 0 THEN Append(ledger, NewProviderData(provider)) ELSE ledger
        i       == IF found = 0 THEN Len(pushed) ELSE found
        data    == pushed[i]
        n       == data.generationCount
        newCount == n + 1
        qm      == data.qualityMetrics
        metrics ==
            [avgQualityScore      |-> RollingAverage(qm.avgQualityScore, n, qualityScore.overall),
             avgCodeQuality       |-> RollingAverage(qm.avgCodeQuality, n, qualityScore.codeQuality),
             avgAccessibility     |-> RollingAverage(qm.avgAccessibility, n, qualityScore.accessibility),
             avgDesignConsistency |-> RollingAverage(qm.avgDesignConsistency, n, qualityScore.designConsistency),
             avgPerformance       |-> RollingAverage(qm.avgPerformance, n, qualityScore.performance)]
    IN  [pushed EXCEPT ![i] =
            [provider |-> data.provider,
             qualityMetrics |-> metrics,
             componentTypePerformance |->
                 BucketUpdate(data.componentTypePerformance, componentType,
                              newCount, qualityScore.overall),
             complexityPerformance |->
                 BucketUpdate(data.complexityPerformance, complexityLevel,
                              newCount, qualityScore.overall),
             generationCount |-> newCount]]

updateProviderPerformance(provider, componentType, complexityLevel, qualityScore, ledger) ==
    LET found   == FindIndex(ledger, "provider", provider)
        pushed  == IF found = 0 THEN Append(ledger, NewProviderData(provider)) ELSE ledger
        i       == IF found = 0 THEN Len(pushed) ELSE found
        data    == pushed[i]
        n       == data.generationCount
        newCount == n + 1
        qm      == data.qualityMetrics
        metrics ==
            [avgQualityScore      |-> RollingAverage(qm.avgQualityScore, n, qualityScore.overall),
             avgCodeQuality       |-> RollingAverage(qm.avgCodeQuality, n, qualityScore.codeQuality),
             avgAccessibility     |-> RollingAverage(qm.avgAccessibility, n, qualityScore.accessibility),
             avgDesignConsistency |-> RollingAverage(qm.avgDesignConsistency, n, qualityScore.designConsistency),
             avgPerformance       |-> RollingAverage(qm.avgPerformance, n, qualityScore.performance)]
    IN  [pushed EXCEPT ![i] =
            [provider |-> data.provider,
             qualityMetrics |-> metrics,
             componentTypePerformance |->
                 BucketUpdate(data.componentTypePerformance, componentType,
                              newCount, qualityScore.overall),
             complexityPerformance |->
                 BucketUpdate(data.complexityPerformance, complexityLevel,
                              newCount, qualityScore.overall),
             generationCount |-> newCount]]

----------------------------------------------------------------------------
(* aiQualityEnhancement.ts: the strategy catalog                           *)

ZeroMetrics ==
    [avgQualityScore |-> Zero, avgUserRating |-> Zero, generationCount |-> 0,
     successRate |-> Zero]

PROMPT_STRATEGIES ==
    << [id |-> "quality-first",
        targetComponentTypes |-> <<"interactive", "form", "data-visualization">>,
        successMetrics |-> ZeroMetrics],
       [id |-> "accessibility-focused",
        targetComponentTypes |-> <<"form", "navigation", "interactive">>,
        successMetrics |-> ZeroMetrics],
       [id |-> "design-consistency",
        targetComponentTypes |-> <<"layout", "navigation", "display">>,
        successMetrics |-> ZeroMetrics],
       [id |-> "performance-optimized",
        targetComponentTypes |-> <<"data-visualization", "interactive", "layout">>,
        successMetrics |-> ZeroMetrics],
       [id |-> "user-experience",
        targetComponentTypes |-> <<"interactive", "form", "navigation", "display">>,
        successMetrics |-> ZeroMetrics] >>

\* an optional userRating argument: <<>> when omitted, <<r>> when given
NoRating == <<>>

\* if (userRating): given, and not 0
Truthy(userRating) == userRating # NoRating /\ userRating[1] # 0

\* successRate * (newCount - 1) + (overall > 70 ? 1 : 0)
successfulGenerations_StrictThreshold(successRate, newCount, overall) ==
    Add(Mul(successRate, I(newCount - 1)), I(IF overall > 70 THEN 1 ELSE 0))

\* successRate * (newCount - 1) + (overall >= 70 ? 1 : 0)
successfulGenerations(successRate, newCount, overall) ==
    Add(Mul(successRate, I(newCount - 1)), I(IF overall >= 70 THEN 1 ELSE 0))

\* (avgQualityScore * newCount + overall) / newCount
StrategyAverage_StaleWeight(avg, generationCount, newCount, value) ==
    Div(Add(Mul(avg, I(newCount)), I(value)), I(newCount))

\* (avgQualityScore * generationCount + overall) / newCount
StrategyAverage(avg, generationCount, newCount, value) ==
    Div(Add(Mul(avg, I(generationCount)), I(value)), I(newCount))

updateStrategyPerformance(strategyId, qualityScore, userRating, catalog) ==
    LET found == FindIndex(catalog, "id", strategyId)
    IN  IF found = 0 THEN catalog
        ELSE
          LET sm       == catalog[found].successMetrics
              newCount == sm.generationCount + 1
              avgQ     == StrategyAverage(sm.avgQualityScore, sm.generationCount,
                                          newCount, qualityScore.overall)
              avgR     == IF Truthy(userRating)
                          THEN StrategyAverage(sm.avgUserRating, sm.generationCount,
                                               newCount, userRating[1])
                          ELSE sm.avgUserRating
              rate     == Div(successfulGenerations(sm.successRate, newCount,
                                                    qualityScore.overall),
                              I(newCount))
          IN  [catalog EXCEPT ![found].successMetrics =
                  [avgQualityScore |-> avgQ, avgUserRating |-> avgR,
                   generationCount |-> newCount, successRate |-> rate]]

----------------------------------------------------------------------------
(* aiQualityEnhancement.ts: strategy selection                             *)

\* Object.keys of a quality score's dimensions and of priorityWeights, in the
\* order the GenerationContext interface and its callers write them
Dimensions == <<"codeQuality", "accessibility", "designConsistency", "performance">>

\* Array.prototype.includes on a list of strings
Includes(list, x) == \E i \in 1..Len(list) : list[i] = x

\* keys.reduce((a, b) => scores[a] < scores[b] ? a : b), from accumulator a at key i
RECURSIVE ReduceLowest(_, _, _)
ReduceLowest(scores, a, i) ==
    IF i > Len(Dimensions) THEN a
    ELSE ReduceLowest(scores,
                      IF scores[a] < scores[Dimensions[i]] THEN a ELSE Dimensions[i],
                      i + 1)

\* keys.reduce((a, b) => weights[a] > weights[b] ? a : b), from accumulator a at key i
RECURSIVE ReduceHighest(_, _, _)
ReduceHighest(weights, a, i) ==
    IF i > Len(Dimensions) THEN a
    ELSE ReduceHighest(weights,
                       IF weights[a] > weights[Dimensions[i]] THEN a ELSE Dimensions[i],
                       i + 1)

priorityStrategyMap ==
    [codeQuality |-> "quality-first", accessibility |-> "accessibility-focused",
     designConsistency |-> "design-consistency", performance |-> "performance-optimized"]

\* a filter predicate that also reads the module's provider ledger
IsSuitable_WhileLedgerEmpty(strategy, componentType) ==
    /\ providerPerformance = <<>>
    /\ \/ Includes(strategy.targetComponentTypes, componentType)
       \/ Includes(strategy.targetComponentTypes, "all")

\* strategy.targetComponentTypes.includes('all') only
IsSuitable_WildcardOnly(strategy, componentType) ==
    Includes(strategy.targetComponentTypes, "all")

\* a filter that also drops a strategy whose recorded generations all failed
IsSuitable_UnlessUnsuccessful(strategy, componentType) ==
    /\ \/ Includes(strategy.targetComponentTypes, componentType)
       \/ Includes(strategy.targetComponentTypes, "all")
    /\ \/ strategy.successMetrics.generationCount = 0
       \/ strategy.successMetrics.successRate # Zero

\* the filter predicate of suitableStrategies
IsSuitable(strategy, componentType) ==
    \/ Includes(strategy.targetComponentTypes, componentType)
    \/ Includes(strategy.targetComponentTypes, "all")

\* catalog.find(s => s.id === id) || fallback, as a sequence of at most one strategy
FindOr(catalog, id, fallback) ==
    LET found == FindIndex(catalog, "id", id)
    IN  IF found # 0 THEN <<catalog[found]>> ELSE fallback

\* list[0] as a sequence of at most one strategy (undefined when the list is empty)
First(list) == IF Len(list) = 0 THEN <<>> ELSE <<list[1]>>

\* the strategy returned, as a sequence of one strategy (empty: undefined)
selectOptimalPromptStrategy(ctx, catalog) ==
    LET suitable == SelectSeq(catalog, LAMBDA s : IsSuitable(s, ctx.componentType))
        attempts == ctx.previousAttempts
        last     == attempts[Len(attempts)]
        alternatives == SelectSeq(suitable, LAMBDA s : s.id # last.promptStrategy)
        lowestDimension == ReduceLowest(last.qualityScore, Dimensions[1], 2)
        weights  == ctx.userQualityPreferences.priorityWeights
        topPriority == ReduceHighest(weights, Dimensions[1], 2)
        preferred == FindOr(catalog, priorityStrategyMap[topPriority], <<>>)
        byPreference ==
            IF preferred # <<>> /\ \E i \in 1..Len(suitable) : suitable[i] = preferred[1]
            THEN preferred
            ELSE FindOr(catalog, "user-experience", First(suitable))
    IN  IF Len(suitable) = 0
        THEN FindOr(catalog, "user-experience", First(catalog))
        ELSE IF /\ Len(attempts) > 0
                /\ last.qualityScore.overall < ctx.userQualityPreferences.minAcceptableScore
                /\ Len(alternatives) > 0
        THEN FindOr(catalog, priorityStrategyMap[lowestDimension], First(alternatives))
        ELSE byPreference

----------------------------------------------------------------------------
(* aiQualityEnhancement.ts: prompt enhancement.  A prompt is modelled as   *)
(* the sequence of its sections, each with the values interpolated in it.  *)

\* the areas named by getImprovementAreas, in order
getImprovementAreas(qualityScore) ==
    SelectSeq(Dimensions, LAMBDA d : qualityScore[d] < 70)

\* Object.entries(priorityWeights).sort(([,a], [,b]) => b - a).map(([key]) => key):
\* the place of a key in the stable descending sort
PriorityRank(priorityWeights, i) ==
    1 + Cardinality({j \in 1..Len(Dimensions) :
                        \/ priorityWeights[Dimensions[j]] > priorityWeights[Dimensions[i]]
                        \/ /\ priorityWeights[Dimensions[j]] = priorityWeights[Dimensions[i]]
                           /\ j < i})

generatePreferenceGuidance(preferences) ==
    LET sortedPriorities ==
            [r \in 1..Len(Dimensions) |->
                Dimensions[CHOOSE i \in 1..Len(Dimensions) :
                              PriorityRank(preferences.priorityWeights, i) = r]]
    IN  [section |-> "USER QUALITY PREFERENCES",
         primary |-> sortedPriorities[1],
         secondary |-> sortedPriorities[2],
         minAcceptableScore |-> preferences.minAcceptableScore]

enhancePromptWithContext(ctx, selectedStrategy) ==
    LET enhancedUserPrompt == <<[section |-> "userPromptEnhancer", strategy |-> selectedStrategy]>>
        lastAttempt == ctx.previousAttempts[Len(ctx.previousAttempts)]
        contextualEnhancement ==
            IF Len(ctx.previousAttempts) > 0 /\ lastAttempt.qualityScore.overall < 70
            THEN <<[section |-> "IMPROVEMENT FOCUS",
                    previous |-> lastAttempt.qualityScore.overall,
                    areas |-> getImprovementAreas(lastAttempt.qualityScore)]>>
            ELSE <<>>
    IN  [path |-> "enhancePromptWithContext",
         systemPrompt |-> <<[section |-> "systemPromptModifier", strategy |-> selectedStrategy],
                            generatePreferenceGuidance(ctx.userQualityPreferences)>>,
         userPrompt |-> enhancedUserPrompt \o contextualEnhancement]

----------------------------------------------------------------------------
(* aiQualityEnhancement.ts: provider selection                             *)

\* record[key] || fallback on a Record<string, number>
LookupOr(m, k, fallback) ==
    IF k \in DOMAIN m /\ ~IsNaN(m[k]) /\ m[k] # Zero THEN m[k] ELSE fallback

\* the number the sort comparator subtracts: aComplexityScore
ComplexityScore(ctx, p) ==
    LET typeScore == LookupOr(p.componentTypePerformance, ctx.componentType,
                              p.qualityMetrics.avgQualityScore)
    IN  LookupOr(p.complexityPerformance, ctx.complexityLevel, typeScore)

\* providerPerformance.reduce((best, current) =>
\*     current.avg > best.avg ? current : best), from accumulator best at entry i
RECURSIVE ReduceBestOverall(_, _, _)
ReduceBestOverall(ledger, best, i) ==
    IF i > Len(ledger) THEN best
    ELSE ReduceBestOverall(ledger,
                           IF Gt(ledger[i].qualityMetrics.avgQualityScore,
                                 best.qualityMetrics.avgQualityScore)
                           THEN ledger[i] ELSE best,
                           i + 1)

\* the provider ids sortedProviders[0] can be: the sort is stable, so with
\* finite scores it is the earliest entry of the highest score; a comparator
\* that returns NaN leaves the order to the engine
SortedFirst(ctx, eligible) ==
    IF \A i \in 1..Len(eligible) : IsFinite(ComplexityScore(ctx, eligible[i]))
    THEN {eligible[i].provider : i \in
             {i \in 1..Len(eligible) :
                 /\ \A j \in 1..Len(eligible) :
                       ~Gt(ComplexityScore(ctx, eligible[j]), ComplexityScore(ctx, eligible[i]))
                 /\ \A j \in 1..(i - 1) :
                       ComplexityScore(ctx, eligible[j]) # ComplexityScore(ctx, eligible[i])}}
    ELSE {eligible[i].provider : i \in 1..Len(eligible)}

\* the outcomes of a call without the early return for an empty ledger
selectOptimalAIProvider_NoEmptyCheck(ctx, ledger) ==
    LET eligible == SelectSeq(ledger, LAMBDA p : p.generationCount > 5)
    IN  IF Len(eligible) > 0 THEN SortedFirst(ctx, eligible)
        ELSE IF Len(ledger) = 0 THEN {"TypeError"}
        ELSE {ReduceBestOverall(ledger, ledger[1], 2).provider}

\* the outcomes of a call: the provider ids it can return, or "TypeError" where
\* reduce would be applied to an empty array without an initial value
selectOptimalAIProvider(ctx, ledger) ==
    LET eligible == SelectSeq(ledger, LAMBDA p : p.generationCount > 5)
    IN  IF Len(ledger) = 0 THEN {"vercel"}
        ELSE IF Len(eligible) > 0 THEN SortedFirst(ctx, eligible)
        ELSE IF Len(ledger) = 0 THEN {"TypeError"}
        ELSE {ReduceBestOverall(ledger, ledger[1], 2).provider}

\* list with entry p put before the first entry the comparator ranks below it
InsertByScore(ctx, list, p) ==
    LET below == {i \in 1..Len(list) :
                     Gt(ComplexityScore(ctx, p), ComplexityScore(ctx, list[i]))}
        at    == IF below = {} THEN Len(list) + 1
                 ELSE CHOOSE i \in below : \A j \in below : i <= j
    IN  SubSeq(list, 1, at - 1) \o <<p>> \o SubSeq(list, at, Len(list))

\* list[1..n] in the order of a stable sort by the comparator
RECURSIVE SortedByScore(_, _, _)
SortedByScore(ctx, list, n) ==
    IF n = 0 THEN <<>>
    ELSE InsertByScore(ctx, SortedByScore(ctx, list, n - 1), list[n])

\* .sort applied to providerPerformance itself, before the filter
LedgerAfterSelection_SortsLedger(ctx, ledger) == SortedByScore(ctx, ledger, Len(ledger))

\* the array the caller's providerPerformance holds after a call: .filter
\* returns a new array and .sort reorders that new array, .reduce only reads
LedgerAfterSelection(ctx, ledger) == ledger

----------------------------------------------------------------------------
(* Specification of the provider ledger: any sequence of feedback updates  *)

NoContext == [componentType |-> "none"]

NoResult == [path |-> "none"]

InitLedger ==
    /\ providerPerformance = <<>>
    /\ observed = <<>>
    /\ strategies = PROMPT_STRATEGIES
    /\ strategyLog = <<>>
    /\ requests = <<>>
    /\ context = NoContext
    /\ chosen = "none"
    /\ code = <<>>
    /\ result = NoResult

UpdateProvider ==
    /\ Len(observed) < MaxUpdates
    /\ \E p \in UpdateProviders, b \in UpdateBuckets, s \in ScoreSamples :
          /\ providerPerformance' =
                 updateProviderPerformance(p, b[1], b[2], s, providerPerformance)
          /\ observed' = Append(observed,
                 [provider |-> p, componentType |-> b[1], complexityLevel |-> b[2],
                  score |-> s])
    /\ UNCHANGED <<strategies, strategyLog, requests, context, chosen, code, result>>

NextLedger == UpdateProvider

SpecLedger == InitLedger /\ [][NextLedger]_vars

----------------------------------------------------------------------------
(* Specification of the strategy catalog: any sequence of feedback updates *)

UpdateStrategyIds == {"quality-first", "user-experience", "retired-strategy"}

UpdateRatings == {NoRating, <<4>>}

InitCatalog == InitLedger

UpdateStrategy ==
    /\ Len(strategyLog) < MaxUpdates
    /\ \E id \in UpdateStrategyIds, s \in ScoreSamples, r \in UpdateRatings :
          /\ strategies' = updateStrategyPerformance(id, s, r, strategies)
          /\ strategyLog' = Append(strategyLog,
                 [strategyId |-> id, score |-> s, userRating |-> r])
    /\ UNCHANGED <<providerPerformance, observed, requests, context, chosen, code, result>>

NextCatalog == UpdateStrategy

SpecCatalog == InitCatalog /\ [][NextCatalog]_vars

----------------------------------------------------------------------------
(* Specification of concurrent requests: each request awaits its scoring   *)
(* and then feeds the score back.  The two update functions are            *)
(* synchronous (no await), so each feedback runs to completion in one turn *)
(* of the event loop.                                                      *)

\* the number of requests in flight
NumRequests == 3

RaceProvider == "openai"

RaceStrategy == "quality-first"

RaceLevel == "medium"

\* the scores the awaited validations resolve with
RaceScores == {Score(85, 80, 90, 75, 82), Score(40, 55, 60, 100, 55)}

InitRace ==
    /\ providerPerformance = <<>>
    /\ observed = <<>>
    /\ strategies = PROMPT_STRATEGIES
    /\ strategyLog = <<>>
    /\ requests = [r \in 1..NumRequests |->
                      [pc |-> "scoring", componentType |-> "form",
                       score |-> Score(0, 0, 0, 0, 0)]]
    /\ context = NoContext
    /\ chosen = "none"
    /\ code = <<>>
    /\ result = NoResult

\* the awaited validation of request r resolves with a score
FinishScoring(r) ==
    /\ requests[r].pc = "scoring"
    /\ \E t \in UpdateTypes, s \in RaceScores :
          requests' = [requests EXCEPT ![r] =
                          [pc |-> "feedback", componentType |-> t, score |-> s]]
    /\ UNCHANGED <<providerPerformance, observed, strategies, strategyLog,
                   context, chosen, code, result>>

\* request r feeds its score back into the ledger and the catalog
Feedback(r) ==
    /\ requests[r].pc = "feedback"
    /\ providerPerformance' =
          updateProviderPerformance(RaceProvider, requests[r].componentType, RaceLevel,
                                    requests[r].score, providerPerformance)
    /\ strategies' =
          updateStrategyPerformance(RaceStrategy, requests[r].score, NoRating, strategies)
    /\ requests' = [requests EXCEPT ![r].pc = "done"]
    /\ UNCHANGED <<observed, strategyLog, context, chosen, code, result>>

NextRace == \E r \in 1..NumRequests : FinishScoring(r) \/ Feedback(r)

SpecRace == InitRace /\ [][NextRace]_vars

----------------------------------------------------------------------------
(* Specification of strategy selection: one request context, one selection *)

\* the longest previousAttempts explored
MaxAttempts == 1

\* componentType is a free string: the six analyzer types and one no strategy targets
ContextTypes == ComponentTypes \cup {"modal"}

\* priority weights, in tenths
WeightValues == {1, 2}

MinAcceptableScores == {70, 80}

\* promptStrategy of a recorded attempt: a catalog id or one no longer in the catalog
AttemptStrategies ==
    {PROMPT_STRATEGIES[i].id : i \in 1..Len(PROMPT_STRATEGIES)} \cup {"retired-strategy"}

Attempts == [qualityScore : ScoreSamples, promptStrategy : AttemptStrategies]

AttemptLists == UNION {[1..n -> Attempts] : n \in 0..MaxAttempts}

Contexts ==
    [componentType : ContextTypes,
     complexityLevel : {"medium"},
     previousAttempts : AttemptLists,
     userQualityPreferences :
         [priorityWeights : [{Dimensions[i] : i \in 1..Len(Dimensions)} -> WeightValues],
          minAcceptableScore : MinAcceptableScores]]

InitSelect ==
    /\ providerPerformance = <<>>
    /\ observed = <<>>
    /\ strategies = PROMPT_STRATEGIES
    /\ strategyLog = <<>>
    /\ requests = <<>>
    /\ context \in Contexts
    /\ chosen = "none"
    /\ code = <<>>
    /\ result = NoResult

SelectStrategy ==
    /\ chosen = "none"
    /\ LET picked == selectOptimalPromptStrategy(context, strategies)
       IN  chosen' = IF picked = <<>> THEN "undefined" ELSE picked[1].id
    /\ UNCHANGED <<providerPerformance, observed, strategies, strategyLog, requests,
                   context, code, result>>

NextSelect == SelectStrategy

SpecSelect == InitSelect /\ [][NextSelect]_vars

----------------------------------------------------------------------------
(* Specification of provider selection: a ledger built by feedback updates, *)
(* one request context, one selection                                      *)

\* providers with generationCount > 5 are ranked; 5 or fewer is a cold start
ColdStartCount == 5

\* the most feedback updates of a provider after its first run of equal ones
MaxRecent == 2

\* n feedback updates that submit the same observation
Run(o, n) == [i \in 1..n |-> o]

Observations(p, buckets) ==
    {[provider |-> p, componentType |-> b[1], complexityLevel |-> b[2], score |-> s] :
        b \in buckets, s \in ScoreSamples}

\* the feedback of one provider: a first run of none, ColdStartCount or
\* ColdStartCount + 1 equal observations, then up to MaxRecent equal ones
ProviderHistories(p, firstLengths, recentBuckets) ==
    LET first  == {<<>>} \cup
                  {Run(o, n) : o \in Observations(p, {<<"form", "medium">>}),
                               n \in firstLengths}
        recent == {<<>>} \cup
                  {Run(o, n) : o \in Observations(p, recentBuckets), n \in 1..MaxRecent}
    IN  {f \o r : f \in first, r \in recent}

\* the feedback the ledger was built from: that of one provider, then of another
SeedHistories ==
    {h1 \o h2 :
        h1 \in ProviderHistories("openai", {ColdStartCount, ColdStartCount + 1}, UpdateBuckets),
        h2 \in ProviderHistories("anthropic", {ColdStartCount + 1}, {<<"form", "complex">>})}

\* the ledger after the feedback updates of history h, applied in order from n
RECURSIVE Replay(_, _)
Replay(h, n) ==
    IF n = 0 THEN <<>>
    ELSE updateProviderPerformance(h[n].provider, h[n].componentType, h[n].complexityLevel,
                                   h[n].score, Replay(h, n - 1))

EvenWeights == [d \in {Dimensions[i] : i \in 1..Len(Dimensions)} |-> 1]

ProviderContexts ==
    [componentType : {"form", "layout"},
     complexityLevel : {"medium", "complex"},
     previousAttempts : {<<>>},
     userQualityPreferences : {[priorityWeights |-> EvenWeights, minAcceptableScore |-> 70]}]

InitProvider ==
    /\ observed \in SeedHistories
    /\ providerPerformance = Replay(observed, Len(observed))
    /\ strategies = PROMPT_STRATEGIES
    /\ strategyLog = <<>>
    /\ requests = <<>>
    /\ context \in ProviderContexts
    /\ chosen = "none"
    /\ code = <<>>
    /\ result = NoResult

\* one call of selectOptimalAIProvider, its outcome kept in result
SelectProvider ==
    /\ \E outcome \in selectOptimalAIProvider(context, providerPerformance) :
          result' = [path |-> "selectOptimalAIProvider", provider |-> outcome]
    /\ providerPerformance' = LedgerAfterSelection(context, providerPerformance)
    /\ UNCHANGED <<observed, strategies, strategyLog, requests, context, chosen, code>>

NextProvider == SelectProvider

SpecProvider == InitProvider /\ [][NextProvider]_vars

----------------------------------------------------------------------------
(* Specification of both selectors on one request context: the strategy    *)
(* selector on the catalog, the provider selector on an empty, a cold and  *)
(* a ranked ledger                                                         *)

RequestHistories ==
    {<<>>} \cup
    {Run([provider |-> "openai", componentType |-> "form", complexityLevel |-> "medium",
          score |-> Score(85, 80, 90, 75, 82)], n) : n \in {1, ColdStartCount + 1}}

InitRequest ==
    /\ observed \in RequestHistories
    /\ providerPerformance = Replay(observed, Len(observed))
    /\ strategies = PROMPT_STRATEGIES
    /\ strategyLog = <<>>
    /\ requests = <<>>
    /\ context \in Contexts
    /\ chosen = "none"
    /\ code = <<>>
    /\ result = NoResult

NextRequest == SelectStrategy \/ SelectProvider

SpecRequest == InitRequest /\ [][NextRequest]_vars

----------------------------------------------------------------------------
(* Specification of repeated selection: the selector is called, feedback   *)
(* of other generations is recorded, and the selector is called again with *)
(* the same context                                                        *)

\* the most feedback updates between the two calls
MaxBetween == 1

\* even weights, and each dimension weighted highest in turn
RepeatWeights ==
    {EvenWeights} \cup
    {[EvenWeights EXCEPT ![Dimensions[i]] = 2] : i \in 1..Len(Dimensions)}

RepeatContexts ==
    [componentType : ContextTypes,
     complexityLevel : {"medium"},
     previousAttempts : {<<>>} \cup {<<a>> : a \in Attempts},
     userQualityPreferences :
         [priorityWeights : RepeatWeights, minAcceptableScore : MinAcceptableScores]]

InitRepeat ==
    /\ providerPerformance = <<>>
    /\ observed = <<>>
    /\ strategies = PROMPT_STRATEGIES
    /\ strategyLog = <<>>
    /\ requests = <<>>
    /\ context \in RepeatContexts
    /\ chosen = "none"
    /\ code = <<>>
    /\ result = NoResult

\* the first call: the strategy returned and the catalog it was given are kept
RecordSelection ==
    /\ result = NoResult
    /\ chosen = "none"
    /\ LET picked == selectOptimalPromptStrategy(context, strategies)
       IN  result' = [path |-> "selectOptimalPromptStrategy",
                      strategy |-> IF picked = <<>> THEN "undefined" ELSE picked[1].id,
                      catalog |-> strategies]
    /\ UNCHANGED <<providerPerformance, observed, strategies, strategyLog, requests,
                   context, chosen, code>>

\* between the calls another generation feeds back: into the ledger, and into
\* the catalog unless its strategy id is not in the catalog
FeedbackBetween ==
    /\ result # NoResult
    /\ chosen = "none"
    /\ Len(observed) < MaxBetween
    /\ \E s \in ScoreSamples, id \in {"quality-first", "retired-strategy"} :
          /\ providerPerformance' =
                 updateProviderPerformance("openai", "form", "medium", s, providerPerformance)
          /\ observed' = Append(observed,
                 [provider |-> "openai", componentType |-> "form",
                  complexityLevel |-> "medium", score |-> s])
          /\ strategies' = updateStrategyPerformance(id, s, NoRating, strategies)
          /\ strategyLog' = Append(strategyLog,
                 [strategyId |-> id, score |-> s, userRating |-> NoRating])
    /\ UNCHANGED <<requests, context, chosen, code, result>>

NextRepeat == RecordSelection \/ FeedbackBetween \/ (result # NoResult /\ SelectStrategy)

SpecRepeat == InitRepeat /\ [][NextRepeat]_vars

----------------------------------------------------------------------------
(* Specification of the ledger's lifecycle: feedback updates and provider  *)
(* selections in any order                                                 *)

InitLifecycle ==
    /\ providerPerformance = <<>>
    /\ observed = <<>>
    /\ strategies = PROMPT_STRATEGIES
    /\ strategyLog = <<>>
    /\ requests = <<>>
    /\ context \in {c \in ProviderContexts :
                       c.componentType = "form" /\ c.complexityLevel = "medium"}
    /\ chosen = "none"
    /\ code = <<>>
    /\ result = NoResult

NextLifecycle == UpdateProvider \/ SelectProvider

SpecLifecycle == InitLifecycle /\ [][NextLifecycle]_vars

----------------------------------------------------------------------------
(* Specification of the scorer: one code string, scored by either entry    *)
(* point.  The code strings explored vary one group of reads over all of   *)
(* its values while the other reads are those of a tidy or of a sloppy     *)
(* component.                                                              *)

\* the most compiler diagnostics, images and class tokens of a code string
MaxDiagnostics == 11

MaxImages == 7

MaxClasses == 2

ClassTokens == {"p-4", "mx-2", "text-white", "bg-gray-900", "bg-white", "rounded-lg", "flex"}

\* a memoized, labelled, styled form component that compiles
TidyCode ==
    [tsErrors |-> 0, tsWarnings |-> 0, compilerThrows |-> FALSE,
     syntaxErrors |-> 0, practiceWarnings |-> 0, throwsAt |-> "never",
     lines |-> 20, length |-> 900,
     domAccess |-> FALSE, mapCall |-> TRUE, keyAttr |-> TRUE, inlineHandlers |-> 0,
     hasFunction |-> TRUE, hasConst |-> TRUE, hasRender |-> TRUE,
     imgsWithoutAlt |-> 0, imgsWithAlt |-> 1, inputs |-> 1, labels |-> 1,
     hasDiv |-> TRUE, onClicks |-> 1, buttons |-> 1,
     hasMain |-> FALSE, hasSection |-> TRUE, hasArticle |-> FALSE,
     hasNav |-> FALSE, hasHeader |-> FALSE, hasFooter |-> FALSE,
     hasAriaLabel |-> TRUE, otherAria |-> FALSE, hasRole |-> FALSE,
     hasTabIndex |-> FALSE, hasHtmlFor |-> TRUE,
     usesState |-> TRUE, usesEffect |-> FALSE, usesMemo |-> TRUE,
     usesCallback |-> TRUE, otherHooks |-> FALSE, otherHandlers |-> FALSE,
     kwForm |-> TRUE, kwNavigation |-> FALSE, kwInteractive |-> TRUE,
     kwData |-> FALSE, kwLayout |-> FALSE,
     jsonCalls |-> FALSE, inlineStyles |-> 0, otherInlineObjects |-> 1, arrayOps |-> FALSE,
     tailwindClasses |-> <<"p-4", "rounded-lg">>, classNameExpr |-> FALSE,
     spacingText |-> TRUE, colorText |-> TRUE, roundedText |-> FALSE,
     shadowText |-> FALSE, responsivePrefix |-> TRUE,
     extraSpacingValues |-> 2, extraRadiusValues |-> 0, extraColorSchemes |-> 2,
     textSizes |-> 2, structureWords |-> TRUE,
     fixedWidths |-> FALSE, smallText |-> FALSE, touchTargets |-> TRUE,
     wideElements |-> FALSE, lowContrastPairs |-> 0, customColors |-> FALSE]

\* a long unstyled component with unlabelled inputs, alt-less images and no memoization
SloppyCode ==
    [tsErrors |-> 2, tsWarnings |-> 1, compilerThrows |-> FALSE,
     syntaxErrors |-> 1, practiceWarnings |-> 2, throwsAt |-> "never",
     lines |-> 250, length |-> 2400,
     domAccess |-> TRUE, mapCall |-> TRUE, keyAttr |-> FALSE, inlineHandlers |-> 4,
     hasFunction |-> FALSE, hasConst |-> FALSE, hasRender |-> FALSE,
     imgsWithoutAlt |-> 2, imgsWithAlt |-> 0, inputs |-> 2, labels |-> 0,
     hasDiv |-> TRUE, onClicks |-> 2, buttons |-> 0,
     hasMain |-> FALSE, hasSection |-> FALSE, hasArticle |-> FALSE,
     hasNav |-> FALSE, hasHeader |-> FALSE, hasFooter |-> FALSE,
     hasAriaLabel |-> FALSE, otherAria |-> FALSE, hasRole |-> FALSE,
     hasTabIndex |-> FALSE, hasHtmlFor |-> FALSE,
     usesState |-> TRUE, usesEffect |-> TRUE, usesMemo |-> FALSE,
     usesCallback |-> FALSE, otherHooks |-> FALSE, otherHandlers |-> FALSE,
     kwForm |-> FALSE, kwNavigation |-> FALSE, kwInteractive |-> FALSE,
     kwData |-> TRUE, kwLayout |-> FALSE,
     jsonCalls |-> TRUE, inlineStyles |-> 4, otherInlineObjects |-> 0, arrayOps |-> TRUE,
     tailwindClasses |-> <<"text-white">>, classNameExpr |-> FALSE,
     spacingText |-> FALSE, colorText |-> FALSE, roundedText |-> FALSE,
     shadowText |-> FALSE, responsivePrefix |-> FALSE,
     extraSpacingValues |-> 9, extraRadiusValues |-> 5, extraColorSchemes |-> 5,
     textSizes |-> 7, structureWords |-> FALSE,
     fixedWidths |-> TRUE, smallText |-> TRUE, touchTargets |-> FALSE,
     wideElements |-> TRUE, lowContrastPairs |-> 2, customColors |-> TRUE]

\* the groups of reads, each with all the values explored for it
ReadGroups ==
    << [tsErrors : 0..MaxDiagnostics, tsWarnings : {0, 1}, compilerThrows : BOOLEAN],
       [syntaxErrors : 0..MaxDiagnostics, practiceWarnings : 0..MaxDiagnostics,
        throwsAt : {"never", "parse", "walk"}],
       {[lines |-> 20, length |-> 90], [lines |-> 20, length |-> 900],
        [lines |-> 150, length |-> 900], [lines |-> 150, length |-> 2400],
        [lines |-> 250, length |-> 2400]},
       [domAccess : BOOLEAN, mapCall : BOOLEAN, keyAttr : BOOLEAN, inlineHandlers : {0, 4},
        hasFunction : BOOLEAN, hasConst : BOOLEAN, hasRender : BOOLEAN],
       [imgsWithoutAlt : 0..MaxImages, imgsWithAlt : {0, 1}, inputs : 0..2, labels : {0, 1},
        hasDiv : BOOLEAN, onClicks : 0..2, buttons : {0, 1}],
       [hasMain : BOOLEAN, hasSection : BOOLEAN, hasArticle : BOOLEAN,
        hasNav : BOOLEAN, hasHeader : BOOLEAN, hasFooter : BOOLEAN],
       [hasAriaLabel : BOOLEAN, otherAria : BOOLEAN, hasRole : BOOLEAN,
        hasTabIndex : BOOLEAN, hasHtmlFor : BOOLEAN],
       [usesState : BOOLEAN, usesEffect : BOOLEAN, usesMemo : BOOLEAN,
        usesCallback : BOOLEAN, otherHooks : BOOLEAN, otherHandlers : BOOLEAN],
       [kwForm : BOOLEAN, kwNavigation : BOOLEAN, kwInteractive : BOOLEAN,
        kwData : BOOLEAN, kwLayout : BOOLEAN],
       [jsonCalls : BOOLEAN, inlineStyles : {0, 4}, otherInlineObjects : {0, 1, 4},
        arrayOps : BOOLEAN],
       [tailwindClasses : UNION {[1..n -> ClassTokens] : n \in 0..MaxClasses},
        classNameExpr : BOOLEAN],
       [spacingText : BOOLEAN, colorText : BOOLEAN, roundedText : BOOLEAN,
        shadowText : BOOLEAN, responsivePrefix : BOOLEAN],
       [extraSpacingValues : {0, 8, 9}, extraRadiusValues : {0, 4, 5},
        extraColorSchemes : {0, 4, 5}, textSizes : {0, 6, 7}, structureWords : BOOLEAN],
       [fixedWidths : BOOLEAN, smallText : BOOLEAN, touchTargets : BOOLEAN,
        wideElements : BOOLEAN, lowContrastPairs : {0, 1, 5}, customColors : BOOLEAN] >>

CodeInputs ==
    {reads @@ base : reads \in UNION {ReadGroups[g] : g \in 1..Len(ReadGroups)},
                     base \in {TidyCode, SloppyCode}}

InitScore ==
    /\ providerPerformance = <<>>
    /\ observed = <<>>
    /\ strategies = PROMPT_STRATEGIES
    /\ strategyLog = <<>>
    /\ requests = <<>>
    /\ context = NoContext
    /\ chosen = "none"
    /\ code \in CodeInputs
    /\ result = NoResult

ValidateGenerated ==
    /\ result = NoResult
    /\ result' = validateGeneratedCode(code)
    /\ UNCHANGED <<providerPerformance, observed, strategies, strategyLog, requests,
                   context, chosen, code>>

ValidateQuality ==
    /\ result = NoResult
    /\ result' = validateComponentQuality(code)
    /\ UNCHANGED <<providerPerformance, observed, strategies, strategyLog, requests,
                   context, chosen, code>>

NextScore == ValidateGenerated \/ ValidateQuality

SpecScore == InitScore /\ [][NextScore]_vars

----------------------------------------------------------------------------
(* Specification of selections among feedback: both selectors are called   *)
(* on one request context, in any order with feedback updates of other     *)
(* generations, on an empty, a cold and a ranked ledger                    *)

FrameContexts ==
    {c \in RepeatContexts :
        c.componentType \in {"form", "modal"} /\ c.userQualityPreferences.minAcceptableScore = 70}

\* no feedback, one update, and two ranked providers of which the later
\* entry scores higher
FrameHistories ==
    {<<>>,
     Run([provider |-> "openai", componentType |-> "form", complexityLevel |-> "medium",
          score |-> Score(40, 55, 60, 100, 55)], 1),
     Run([provider |-> "openai", componentType |-> "form", complexityLevel |-> "medium",
          score |-> Score(40, 55, 60, 100, 55)], ColdStartCount + 1)
     \o Run([provider |-> "anthropic", componentType |-> "form",
             complexityLevel |-> "medium", score |-> Score(85, 80, 90, 75, 82)],
            ColdStartCount + 1)}

InitFrame ==
    /\ observed \in FrameHistories
    /\ providerPerformance = Replay(observed, Len(observed))
    /\ strategies = PROMPT_STRATEGIES
    /\ strategyLog = <<>>
    /\ requests = <<>>
    /\ context \in FrameContexts
    /\ chosen = "none"
    /\ code = <<>>
    /\ result = NoResult

\* another generation feeds back into the ledger and into the catalog
FrameFeedback ==
    /\ Len(strategyLog) < MaxBetween
    /\ \E p \in UpdateProviders, s \in ScoreSamples, id \in {"quality-first"} :
          /\ providerPerformance' =
                 updateProviderPerformance(p, "form", "medium", s, providerPerformance)
          /\ observed' = Append(observed,
                 [provider |-> p, componentType |-> "form",
                  complexityLevel |-> "medium", score |-> s])
          /\ strategies' = updateStrategyPerformance(id, s, NoRating, strategies)
          /\ strategyLog' = Append(strategyLog,
                 [strategyId |-> id, score |-> s, userRating |-> NoRating])
    /\ UNCHANGED <<requests, context, chosen, code, result>>

NextFrame == SelectStrategy \/ SelectProvider \/ FrameFeedback

SpecFrame == InitFrame /\ [][NextFrame]_vars

----------------------------------------------------------------------------
(* Specification of the closed feedback loop: from an empty ledger, each   *)
(* generation cycle calls selectOptimalAIProvider for its context, uses    *)
(* the provider returned, and feeds the score of the generation back for   *)
(* that provider                                                           *)

\* the number of generation cycles explored
MaxCycles == 7

LoopContexts == {c \in ProviderContexts : c.componentType = "form"}

LoopScores == {Score(85, 80, 90, 75, 82), Score(40, 55, 60, 100, 55)}

InitLoop ==
    /\ providerPerformance = <<>>
    /\ observed = <<>>
    /\ strategies = PROMPT_STRATEGIES
    /\ strategyLog = <<>>
    /\ requests = <<[pc |-> "select"]>>
    /\ context = NoContext
    /\ chosen = "none"
    /\ code = <<>>
    /\ result = NoResult

\* a cycle starts: the provider is selected for the cycle's context
LoopSelect ==
    /\ requests[1].pc = "select"
    /\ Len(observed) < MaxCycles
    /\ \E ctx \in LoopContexts :
          /\ context' = ctx
          /\ \E outcome \in selectOptimalAIProvider(ctx, providerPerformance) :
                result' = [path |-> "selectOptimalAIProvider", provider |-> outcome]
          /\ providerPerformance' = LedgerAfterSelection(ctx, providerPerformance)
    /\ requests' = [requests EXCEPT ![1].pc = "feedback"]
    /\ UNCHANGED <<observed, strategies, strategyLog, chosen, code>>

\* the cycle ends: the score is recorded for the provider that was used
LoopFeedback ==
    /\ requests[1].pc = "feedback"
    /\ \E s \in LoopScores :
          /\ providerPerformance' =
                 updateProviderPerformance(result.provider, context.componentType,
                                           context.complexityLevel, s, providerPerformance)
          /\ observed' = Append(observed,
                 [provider |-> result.provider, componentType |-> context.componentType,
                  complexityLevel |-> context.complexityLevel, score |-> s])
    /\ requests' = [requests EXCEPT ![1].pc = "select"]
    /\ UNCHANGED <<strategies, strategyLog, context, chosen, code, result>>

NextLoop == LoopSelect \/ LoopFeedback

SpecLoop == InitLoop /\ [][NextLoop]_vars

----------------------------------------------------------------------------
(* Specification of prompt construction: the strategy is selected for the  *)
(* request context, then the prompt is enhanced with that strategy         *)

InitPrompt == InitSelect

\* enhancePromptWithContext(originalPrompt, context, selectedStrategy)
EnhancePrompt ==
    /\ chosen # "none"
    /\ result = NoResult
    /\ result' = enhancePromptWithContext(context, chosen)
    /\ UNCHANGED <<providerPerformance, observed, strategies, strategyLog, requests,
                   context, chosen, code>>

NextPrompt == SelectStrategy \/ EnhancePrompt

SpecPrompt == InitPrompt /\ [][NextPrompt]_vars

----------------------------------------------------------------------------
(* Specification of the validate endpoint: POST /api/components/validate   *)
(* as registered by aiRoutes.ts (scored by validateGeneratedCode) and by   *)
(* componentRoutes.ts (scored by validateComponentQuality).  The variable  *)
(* code holds req.body.code: a JSON value, or undefined when the body has  *)
(* no such field.  The catch block of the handlers answers 500 when the    *)
(* scorer raises; the scorers modelled here raise on no string, so that    *)
(* branch has no step.                                                     *)

Endpoints == {"aiRoutes", "componentRoutes"}

\* the code strings sent to the endpoint
EndpointStrings == {TidyCode, SloppyCode} \cup ReadGroups[2] \cup ReadGroups[5]

\* the values of req.body.code
BodyCodes ==
    {[typeof |-> "undefined"], [typeof |-> "object", isNull |-> TRUE],
     [typeof |-> "object", isNull |-> FALSE],
     [typeof |-> "number", value |-> 0], [typeof |-> "number", value |-> 42],
     [typeof |-> "boolean", flag |-> FALSE], [typeof |-> "boolean", flag |-> TRUE],
     [typeof |-> "string", length |-> 0]}
    \cup {[typeof |-> "string", length |-> (reads @@ base).length,
           features |-> reads @@ base] :
             reads \in EndpointStrings, base \in {TidyCode, SloppyCode}}

\* !code
Falsy(v) ==
    \/ v.typeof = "undefined"
    \/ v.typeof = "object" /\ v.isNull
    \/ v.typeof = "number" /\ v.value = 0
    \/ v.typeof = "boolean" /\ ~v.flag
    \/ v.typeof = "string" /\ v.length = 0

\* if (!code || typeof code !== 'string')
Rejected(v) == Falsy(v) \/ v.typeof # "string"

InitEndpoint ==
    /\ providerPerformance = <<>>
    /\ observed = <<>>
    /\ strategies = PROMPT_STRATEGIES
    /\ strategyLog = <<>>
    /\ requests \in {<<[endpoint |-> e, pc |-> "received", validation |-> NoResult]>> :
                        e \in Endpoints}
    /\ context = NoContext
    /\ chosen = "none"
    /\ code \in BodyCodes
    /\ result = NoResult

\* without the guard the scorer is called and raises on such a value, and the
\* catch block answers 500
RejectRequest_CaughtByCatch ==
    /\ requests[1].pc = "received"
    /\ Rejected(code)
    /\ result' = [path |-> requests[1].endpoint, status |-> 500,
                  body |-> [error |-> "failed-to-validate"]]
    /\ requests' = [requests EXCEPT ![1].pc = "done"]
    /\ UNCHANGED <<providerPerformance, observed, strategies, strategyLog, context,
                   chosen, code>>

\* return res.status(400).json({ error: ... })
RejectRequest ==
    /\ requests[1].pc = "received"
    /\ Rejected(code)
    /\ result' = [path |-> requests[1].endpoint, status |-> 400,
                  body |-> [error |-> "invalid-input"]]
    /\ requests' = [requests EXCEPT ![1].pc = "done"]
    /\ UNCHANGED <<providerPerformance, observed, strategies, strategyLog, context,
                   chosen, code>>

\* await validateGeneratedCode(code) / await validateComponentQuality(code)
RunValidator ==
    /\ requests[1].pc = "received"
    /\ ~Rejected(code)
    /\ requests' = [requests EXCEPT
                       ![1].pc = "validated",
                       ![1].validation =
                           IF requests[1].endpoint = "aiRoutes"
                           THEN validateGeneratedCode(code.features)
                           ELSE validateComponentQuality(code.features)]
    /\ UNCHANGED <<providerPerformance, observed, strategies, strategyLog, context,
                   chosen, code, result>>

\* res.json({ ... }) with the default status 200
SendResponse ==
    /\ requests[1].pc = "validated"
    /\ result' = [path |-> requests[1].endpoint, status |-> 200,
                  body |-> [isValid |-> requests[1].validation.isValid,
                            errors |-> requests[1].validation.errors,
                            qualityScore |-> requests[1].validation.qualityScore]]
    /\ requests' = [requests EXCEPT ![1].pc = "done"]
    /\ UNCHANGED <<providerPerformance, observed, strategies, strategyLog, context,
                   chosen, code>>

NextEndpoint == RejectRequest \/ RunValidator \/ SendResponse

SpecEndpoint == InitEndpoint /\ [][NextEndpoint]_vars

----------------------------------------------------------------------------
(* Claims about the ledger and the catalog                                 *)

\* the observations applied for provider p, in order
ObservationsOf(p) == SelectSeq(observed, LAMBDA o : o.provider = p)

\* the mean of field f of the scores of a non-empty sequence of observations
MeanOf(obs, f) == Mean([i \in 1..Len(obs) |-> I(obs[i].score[f])])

EntryHasMeans(e) ==
    LET obs == ObservationsOf(e.provider)
    IN  /\ e.generationCount = Len(obs)
        /\ Len(obs) >= 1
        /\ e.qualityMetrics.avgQualityScore = MeanOf(obs, "overall")
        /\ e.qualityMetrics.avgCodeQuality = MeanOf(obs, "codeQuality")
        /\ e.qualityMetrics.avgAccessibility = MeanOf(obs, "accessibility")
        /\ e.qualityMetrics.avgDesignConsistency = MeanOf(obs, "designConsistency")
        /\ e.qualityMetrics.avgPerformance = MeanOf(obs, "performance")

\* C3: after any sequence of k updateProviderPerformance calls for a provider,
\* its generationCount is k and each qualityMetrics average is the arithmetic
\* mean of the k submitted values of the matching score field.
C3_QualityMetricsAreMeans ==
    \A i \in 1..Len(providerPerformance) : EntryHasMeans(providerPerformance[i])

\* C3 witness: an entry updated three times with three different overall scores
C3_Witness ==
    \E i \in 1..Len(providerPerformance) :
        LET obs == ObservationsOf(providerPerformance[i].provider)
        IN  /\ providerPerformance[i].generationCount = 3
            /\ Len(obs) = 3
            /\ obs[1].score.overall # obs[2].score.overall
            /\ obs[2].score.overall # obs[3].score.overall
            /\ obs[1].score.overall # obs[3].score.overall

\* the mean of the overall scores of the observations of obs that satisfy Test
BucketMean(obs, field, value) ==
    MeanOf(SelectSeq(obs, LAMBDA o : o[field] = value), "overall")

\* C4: componentTypePerformance[t] is the mean of the overall scores of the
\* observations whose componentType was t, and complexityPerformance[l] the
\* mean of those whose complexityLevel was l.
C4_BucketsAreMeans ==
    \A i \in 1..Len(providerPerformance) :
        LET e   == providerPerformance[i]
            obs == ObservationsOf(e.provider)
        IN  /\ \A t \in DOMAIN e.componentTypePerformance :
                  e.componentTypePerformance[t] =
                      BucketMean(obs, "componentType", t)
            /\ \A l \in DOMAIN e.complexityPerformance :
                  e.complexityPerformance[l] =
                      BucketMean(obs, "complexityLevel", l)

\* C5: the first update for a provider leaves exactly one entry for it, whose
\* avgQualityScore and componentTypePerformance[type] equal score.overall.
C5_FirstObservation ==
    \A p \in UpdateProviders :
        LET obs == ObservationsOf(p)
        IN  Len(obs) = 1 =>
               /\ Cardinality({i \in 1..Len(providerPerformance) :
                                  providerPerformance[i].provider = p}) = 1
               /\ \A i \in 1..Len(providerPerformance) :
                     providerPerformance[i].provider = p =>
                        LET e == providerPerformance[i]
                        IN  /\ e.qualityMetrics.avgQualityScore = I(obs[1].score.overall)
                            /\ obs[1].componentType \in DOMAIN e.componentTypePerformance
                            /\ e.componentTypePerformance[obs[1].componentType]
                                   = I(obs[1].score.overall)

\* the log entries for strategy id, in order
StrategyLogOf(id) == SelectSeq(strategyLog, LAMBDA o : o.strategyId = id)

\* C6: after k updateStrategyPerformance calls for a catalog strategy, its
\* generationCount is k and its avgQualityScore is the mean of the k overall
\* scores (0 while k = 0).
C6_StrategyAverageIsMean ==
    \A i \in 1..Len(strategies) :
        LET log == StrategyLogOf(strategies[i].id)
            sm  == strategies[i].successMetrics
        IN  /\ sm.generationCount = Len(log)
            /\ sm.avgQualityScore =
                  (IF Len(log) = 0 THEN Zero ELSE MeanOf(log, "overall"))

\* C6 witness: a strategy updated three times with three different overall scores
C6_Witness ==
    \E i \in 1..Len(strategies) :
        LET log == StrategyLogOf(strategies[i].id)
        IN  /\ strategies[i].successMetrics.generationCount = 3
            /\ Len(log) = 3
            /\ Cardinality({log[j].score.overall : j \in 1..3}) = 3

\* C7: after k >= 1 updates successRate is the fraction of the k observations
\* with overall >= 70 (70 itself counts), and it lies in [0, 1].
C7_SuccessRateIsFraction ==
    \A i \in 1..Len(strategies) :
        LET log  == StrategyLogOf(strategies[i].id)
            sm   == strategies[i].successMetrics
            good == Cardinality({j \in 1..Len(log) : log[j].score.overall >= 70})
        IN  Len(log) >= 1 =>
               /\ sm.successRate = Num(good, Len(log))
               /\ ~Lt(sm.successRate, Zero)
               /\ ~Gt(sm.successRate, I(1))

\* C7 witness: two updates, one with overall exactly 70 and one below it
C7_Witness ==
    \E i \in 1..Len(strategies) :
        LET log == StrategyLogOf(strategies[i].id)
        IN  /\ Len(log) = 2
            /\ log[1].score.overall = 70
            /\ log[2].score.overall < 70
            /\ strategies[i].successMetrics.successRate = Num(1, 2)

----------------------------------------------------------------------------
(* Claims about concurrent feedback                                        *)

DoneRequests == {r \in 1..NumRequests : requests[r].pc = "done"}

\* the orders in which the requests of set S can be served one after another
SerialOrders(S) ==
    {o \in [1..Cardinality(S) -> S] : \A i, j \in 1..Cardinality(S) : i # j => o[i] # o[j]}

\* the ledger after serving the first n requests of order o serially
RECURSIVE SerialLedger(_, _)
SerialLedger(o, n) ==
    IF n = 0 THEN <<>>
    ELSE updateProviderPerformance(RaceProvider, requests[o[n]].componentType, RaceLevel,
                                   requests[o[n]].score, SerialLedger(o, n - 1))

\* the catalog after serving the first n requests of order o serially
RECURSIVE SerialCatalog(_, _)
SerialCatalog(o, n) ==
    IF n = 0 THEN PROMPT_STRATEGIES
    ELSE updateStrategyPerformance(RaceStrategy, requests[o[n]].score, NoRating,
                                   SerialCatalog(o, n - 1))

\* C8: under every interleaving of concurrent requests no feedback update is
\* lost: the generation counts equal the number of feedbacks performed, the
\* averages are the means of the scores fed back, and ledger and catalog are
\* those of some serial order of the same updates.
C8_NoLostUpdate ==
    LET k == Cardinality(DoneRequests)
        scores == {<<r, requests[r].score.overall>> : r \in DoneRequests}
        RECURSIVE Total(_)
        Total(S) == IF S = {} THEN 0
                    ELSE LET x == CHOOSE x \in S : TRUE IN x[2] + Total(S \ {x})
        q == FindIndex(strategies, "id", RaceStrategy)
    IN  /\ Len(providerPerformance) = (IF k = 0 THEN 0 ELSE 1)
        /\ k > 0 => /\ providerPerformance[1].generationCount = k
                    /\ providerPerformance[1].qualityMetrics.avgQualityScore
                          = Num(Total(scores), k)
                    /\ strategies[q].successMetrics.avgQualityScore = Num(Total(scores), k)
        /\ strategies[q].successMetrics.generationCount = k
        /\ \E o \in SerialOrders(DoneRequests) :
              /\ providerPerformance = SerialLedger(o, k)
              /\ strategies = SerialCatalog(o, k)

\* C8 witness: every request has fed back, while all of them were waiting to
\* feed back at the same time, with different scores
C8_Witness ==
    /\ DoneRequests = 1..NumRequests
    /\ Cardinality({requests[r].score : r \in 1..NumRequests}) >= 2
    /\ providerPerformance[1].generationCount = NumRequests

----------------------------------------------------------------------------
(* Claims about strategy selection                                         *)

DimensionSet == {Dimensions[i] : i \in 1..Len(Dimensions)}

\* the dimensions that carry the highest priority weight
TopDimensions(ctx) ==
    LET w == ctx.userQualityPreferences.priorityWeights
    IN  {d \in DimensionSet : \A e \in DimensionSet : w[d] >= w[e]}

\* no previous attempt, or the most recent one is acceptable
LastAcceptable(ctx) ==
    \/ ctx.previousAttempts = <<>>
    \/ ctx.previousAttempts[Len(ctx.previousAttempts)].qualityScore.overall
          >= ctx.userQualityPreferences.minAcceptableScore

\* catalog strategy id targets componentType, read from the catalog table
Targets(id, componentType) ==
    \E i \in 1..Len(PROMPT_STRATEGIES) :
        /\ PROMPT_STRATEGIES[i].id = id
        /\ \E j \in 1..Len(PROMPT_STRATEGIES[i].targetComponentTypes) :
              PROMPT_STRATEGIES[i].targetComponentTypes[j] = componentType

\* the selection the priority weights call for when dimension d ranks first
RankedBy(d, componentType) ==
    IF Targets(priorityStrategyMap[d], componentType)
    THEN priorityStrategyMap[d]
    ELSE "user-experience"

\* C9: with no unacceptable last attempt and exactly one dimension of strictly
\* highest weight, the strategy mapped from that dimension is returned when it
\* targets the component type, and 'user-experience' otherwise.
C9_UniqueTopPriority ==
    (chosen # "none" /\ LastAcceptable(context)
        /\ Cardinality(TopDimensions(context)) = 1) =>
       \A d \in TopDimensions(context) : chosen = RankedBy(d, context.componentType)

\* C9 witness: the scenario of the spec (form, accessibility weighted highest)
C9_Witness ==
    /\ chosen = "accessibility-focused"
    /\ context.componentType = "form"
    /\ context.previousAttempts = <<>>
    /\ TopDimensions(context) = {"accessibility"}

\* C9 witness of the fallback: the mapped strategy does not target the type
C9_WitnessFallback ==
    /\ chosen = "user-experience"
    /\ context.componentType = "layout"
    /\ LastAcceptable(context)
    /\ TopDimensions(context) = {"accessibility"}

\* the first dimension, in the order of Dimensions, among set S
FirstOf(S) ==
    Dimensions[CHOOSE i \in 1..Len(Dimensions) :
                  Dimensions[i] \in S /\ \A j \in 1..(i - 1) : Dimensions[j] \notin S]

\* C10: when several dimensions share the highest weight, selection ranks by
\* the tied dimension that comes first in the order codeQuality, accessibility,
\* designConsistency, performance.
C10_TieFirstDimensionWins ==
    (chosen # "none" /\ LastAcceptable(context)
        /\ Cardinality(TopDimensions(context)) >= 2) =>
       chosen = RankedBy(FirstOf(TopDimensions(context)), context.componentType)

\* the most recent attempt of a context that has one
LastAttempt(ctx) == ctx.previousAttempts[Len(ctx.previousAttempts)]

\* the most recent attempt scored below minAcceptableScore and some strategy
\* that targets the component type is not the one that attempt used
RetryCalledFor(ctx) ==
    /\ ctx.previousAttempts # <<>>
    /\ LastAttempt(ctx).qualityScore.overall < ctx.userQualityPreferences.minAcceptableScore
    /\ \E i \in 1..Len(PROMPT_STRATEGIES) :
          /\ Targets(PROMPT_STRATEGIES[i].id, ctx.componentType)
          /\ PROMPT_STRATEGIES[i].id # LastAttempt(ctx).promptStrategy

\* the dimensions on which the most recent attempt scored lowest
LowestDimensions(ctx) ==
    LET q == LastAttempt(ctx).qualityScore
    IN  {d \in DimensionSet : \A e \in DimensionSet : q[d] <= q[e]}

\* C11: after an unacceptable attempt, with an alternative strategy available,
\* the strategy mapped from the attempt's lowest-scoring dimension is returned,
\* a tie for the lowest going to the first dimension in the order codeQuality,
\* accessibility, designConsistency, performance.
C11_LowestDimensionFirstTied ==
    (chosen # "none" /\ RetryCalledFor(context)) =>
       chosen = priorityStrategyMap[FirstOf(LowestDimensions(context))]

\* C12: after an unacceptable attempt, with an alternative strategy available,
\* the strategy returned is not the one the attempt used.
C12_NotTheStrategyJustUsed ==
    (chosen # "none" /\ RetryCalledFor(context)) =>
       chosen # LastAttempt(context).promptStrategy

----------------------------------------------------------------------------
(* Claims about the scorer                                                 *)

Scored == result # NoResult

\* C1: every dimension score and overall returned by either entry point is an
\* integer in [0, 100].
C1_ScoresInRange ==
    Scored => \A f \in DimensionSet \cup {"overall"} : result.qualityScore[f] \in 0..100

\* C1 witness: both clamps act: seven images without alt floor accessibility at
\* 0 and the memoization bonus is cut off at 100
C1_Witness ==
    /\ Scored
    /\ result.path = "validateGeneratedCode"
    /\ 15 * code.imgsWithoutAlt > 100
    /\ result.qualityScore.accessibility = 0
    /\ code.usesMemo /\ ~code.jsonCalls /\ ~code.arrayOps
    /\ result.qualityScore.performance = 100

\* ten times the fixed-weight composite of the returned dimensions
TenfoldWeighted(q) ==
    4 * q.codeQuality + 3 * q.accessibility + 2 * q.designConsistency + q.performance

\* four times the unweighted mean of the returned dimensions
FourfoldMean(q) == q.codeQuality + q.accessibility + q.designConsistency + q.performance

\* overall is the value nearest to w / n, halves rounded up
IsRounded(overall, w, n) == n * overall * 2 <= 2 * w + n /\ 2 * w + n < n * (overall + 1) * 2

----------------------------------------------------------------------------
(* Claims about provider selection                                         *)

ProviderSelected == result # NoResult /\ result.path = "selectOptimalAIProvider"

\* the ledger entries with enough history to be ranked
Eligible == SelectSeq(providerPerformance, LAMBDA p : p.generationCount > 5)

\* C14: no provider with generationCount <= 5 is ever returned; a non-empty
\* ledger without any provider above 5 yields the fixed default 'vercel'.
C14_ColdStartExcluded ==
    ProviderSelected =>
       /\ \A i \in 1..Len(providerPerformance) :
             providerPerformance[i].generationCount <= 5
                => result.provider # providerPerformance[i].provider
       /\ Len(Eligible) = 0 => result.provider = "vercel"

\* the ranking key of the claim: the type entry when it exists, else the
\* complexity entry when it exists, else the overall average
RankingKey(ctx, p) ==
    IF ctx.componentType \in DOMAIN p.componentTypePerformance
    THEN p.componentTypePerformance[ctx.componentType]
    ELSE IF ctx.complexityLevel \in DOMAIN p.complexityPerformance
    THEN p.complexityPerformance[ctx.complexityLevel]
    ELSE p.qualityMetrics.avgQualityScore

\* C15: among the providers with generationCount > 5 the one returned has a
\* maximal ranking key (type entry, else complexity entry, else overall average).
C15_MaximalRankingKey ==
    (ProviderSelected /\ Len(Eligible) > 0) =>
       \E i \in 1..Len(Eligible) :
          /\ Eligible[i].provider = result.provider
          /\ \A j \in 1..Len(Eligible) :
                ~Gt(RankingKey(context, Eligible[j]), RankingKey(context, Eligible[i]))

CatalogIds == {PROMPT_STRATEGIES[i].id : i \in 1..Len(PROMPT_STRATEGIES)}

\* C13: neither selector fails: the strategy selector returns a member of the
\* catalog, 'user-experience' when no strategy targets the component type; the
\* provider selector returns a provider id, 'vercel' when the ledger is empty.
C13_SelectorsNeverFail ==
    /\ chosen # "none" =>
          /\ chosen \in CatalogIds
          /\ (\A id \in CatalogIds : ~Targets(id, context.componentType))
                => chosen = "user-experience"
    /\ ProviderSelected =>
          /\ result.provider \in Providers
          /\ providerPerformance = <<>> => result.provider = "vercel"

\* C13 witness: a component type no strategy targets, after a previous attempt,
\* and an empty ledger: the balanced strategy and the default provider
C13_Witness ==
    /\ chosen = "user-experience"
    /\ context.componentType = "modal"
    /\ context.previousAttempts # <<>>
    /\ ProviderSelected
    /\ providerPerformance = <<>>
    /\ result.provider = "vercel"

\* the number of feedback updates applied for provider p
UpdatesFor(p) == Len(ObservationsOf(p))

\* an entry exists exactly for the providers with an update, one per provider,
\* and its generationCount is the number of updates of its provider
LedgerMatchesUpdates ==
    /\ \A p \in Providers :
          (UpdatesFor(p) > 0) <=>
             (\E i \in 1..Len(providerPerformance) : providerPerformance[i].provider = p)
    /\ \A i, j \in 1..Len(providerPerformance) :
          providerPerformance[i].provider = providerPerformance[j].provider => i = j
    /\ \A i \in 1..Len(providerPerformance) :
          providerPerformance[i].generationCount = UpdatesFor(providerPerformance[i].provider)

\* a step removes no entry and lowers no generationCount
EntriesKept ==
    \A i \in 1..Len(providerPerformance) :
       \E j \in 1..Len(providerPerformance') :
          /\ providerPerformance'[j].provider = providerPerformance[i].provider
          /\ providerPerformance'[j].generationCount >= providerPerformance[i].generationCount

\* C17: after any sequence of updates and provider selections the ledger holds
\* an entry for a provider exactly when an update was applied for it, at most
\* one entry per provider, each generationCount is the number of updates of its
\* provider, and no step removes an entry or lowers a generationCount.
C17_LedgerLifecycle == []LedgerMatchesUpdates /\ [][EntriesKept]_vars

\* C17 witness: updates for two providers with a selection made in between
C17_Witness ==
    /\ Len(providerPerformance) = 2
    /\ \E i \in 1..2 : providerPerformance[i].generationCount = 2
    /\ ProviderSelected

----------------------------------------------------------------------------
(* Claims about the validators                                             *)

\* the code with one more <img> tag that lacks alt=
OneMoreImgWithoutAlt(c) == [c EXCEPT !.imgsWithoutAlt = @ + 1]

\* the code with one more <img> tag that carries alt=
OneMoreImgWithAlt(c) == [c EXCEPT !.imgsWithAlt = @ + 1]

\* the error-severity entries of rule 'img-alt' among errors
ImgAltErrors(errors) ==
    SelectSeq(errors, LAMBDA e : e = [type |-> "accessibility", severity |-> "error",
                                      rule |-> "img-alt"])

MemoizedWithoutJson == code.usesMemo /\ code.usesCallback /\ ~code.jsonCalls

TypeScriptOutcome ==
    IF result.path = "validateGeneratedCode"
    THEN LET v == validateTypeScript(code) IN [valid |-> v.isValid, errors |-> v.errors]
    ELSE LET v == validateTypeScriptCode(code) IN [valid |-> v.success, errors |-> v.errors]

\* the compiler or the best-practice walk raised during that validation
ValidatorRaised ==
    IF result.path = "validateGeneratedCode"
    THEN code.compilerThrows ELSE code.throwsAt # "never"

\* the entry the catch block pushes (its message is left out)
SyntheticEntry ==
    IF result.path = "validateGeneratedCode"
    THEN [type |-> "typescript", severity |-> "error", rule |-> ""]
    ELSE [type |-> "typescript", severity |-> "error", rule |-> "typescript-compilation"]

\* the validator's entries open the error list of the scorer's result
OutcomeInResult ==
    /\ Len(result.errors) >= Len(TypeScriptOutcome.errors)
    /\ SubSeq(result.errors, 1, Len(TypeScriptOutcome.errors)) = TypeScriptOutcome.errors

\* C20: when the compiler or the best-practice walk raises, the TypeScript
\* validator returns not valid with exactly one entry, the synthetic one of
\* type 'typescript' and severity 'error', and nothing collected before.
C20_OnlyTheSyntheticEntry ==
    (Scored /\ ValidatorRaised) =>
       /\ ~TypeScriptOutcome.valid
       /\ TypeScriptOutcome.errors = <<SyntheticEntry>>

\* the error-severity entries collected before the exception was raised
CollectedBefore ==
    IF result.path = "validateGeneratedCode"
    THEN [i \in 1..code.tsErrors |-> [type |-> "typescript", severity |-> "error", rule |-> ""]]
    ELSE IF code.throwsAt = "parse" THEN <<>>
    ELSE [i \in 1..code.syntaxErrors |->
             [type |-> "typescript", severity |-> "error", rule |-> "typescript-syntax"]]
         \o [i \in 1..code.practiceWarnings |->
                [type |-> "best-practices", severity |-> "warning", rule |-> "practice"]]

\* C20 as amended: when the compiler or the walk raises, the validator returns
\* not valid, and its list is the entries collected before the exception
\* followed by one synthetic entry of type 'typescript' and severity 'error';
\* the scorer's result is not valid and carries that list.
C20_SyntheticEntryAppended ==
    (Scored /\ ValidatorRaised) =>
       /\ ~TypeScriptOutcome.valid
       /\ TypeScriptOutcome.errors = CollectedBefore \o <<SyntheticEntry>>
       /\ OutcomeInResult
       /\ ~result.isValid

\* C20 witness: the walk raises after a syntax error was recorded
C20_Witness ==
    /\ Scored
    /\ result.path = "validateComponentQuality"
    /\ code.throwsAt = "walk"
    /\ code.syntaxErrors >= 1
    /\ Len(TypeScriptOutcome.errors) = code.syntaxErrors + code.practiceWarnings + 1
    /\ ~result.isValid

\* C21: the scorer returns a complete ComponentQualityScore with the errors
\* collected, and a dimension whose validator could not run is 0: when the
\* compiler or the walk raised, codeQuality is 0.
C21_FailedValidatorScoresZero ==
    Scored =>
       /\ DOMAIN result.qualityScore = DimensionSet \cup {"overall"}
       /\ OutcomeInResult
       /\ ValidatorRaised => result.qualityScore.codeQuality = 0

----------------------------------------------------------------------------
(* Claims about the validate endpoint                                      *)

\* the request's code is missing or is not a string
MissingOrNotString == code.typeof # "string"

\* C22: a request whose code is missing or not a string is answered 400 with
\* an invalid-input body, no validator having executed and no score produced;
\* that rejection is the only failure the endpoint answers: every other
\* response is 200 with a score, and 400 is answered exactly when the guard
\* !code || typeof code !== 'string' holds.
C22_InvalidInputRejected ==
    /\ (MissingOrNotString /\ requests[1].pc # "received") =>
          /\ requests[1].pc = "done"
          /\ result.status = 400
          /\ "error" \in DOMAIN result.body
          /\ "qualityScore" \notin DOMAIN result.body
          /\ requests[1].validation = NoResult
    /\ requests[1].pc = "done" =>
          /\ result.status \in {200, 400}
          /\ result.status = 400 <=> Rejected(code)
          /\ result.status = 400 => requests[1].validation = NoResult
          /\ result.status = 200 =>
                /\ requests[1].validation # NoResult
                /\ result.body.qualityScore = requests[1].validation.qualityScore

\* C22 witness: a request whose code is the number 42 was answered 400, and
\* no validator ran
C22_Witness ==
    /\ requests # <<>>
    /\ requests[1].pc = "done"
    /\ code.typeof = "number" /\ code.value = 42
    /\ result.status = 400
    /\ requests[1].validation = NoResult

----------------------------------------------------------------------------
(* Claims about the selectors among feedback                               *)

----------------------------------------------------------------------------
(* Claims about the merged error list                                      *)

\* the number of entries of list equal to e
Occurrences(list, e) == Cardinality({i \in 1..Len(list) : list[i] = e})

\* every ValidationError emitted by a validator that contributed to the
\* scores of the path taken, the warning-severity diagnostics included
EmittedErrors ==
    IF result.path = "validateGeneratedCode"
    THEN Repeat(Err("typescript", "error", ""), code.tsErrors)
         \o Repeat(Err("typescript", "warning", ""), code.tsWarnings)
         \o (IF code.compilerThrows THEN <<Err("typescript", "error", "")>> ELSE <<>>)
         \o validateReactBestPractices(code)
         \o validateAccessibilityLegacy(code).errors
    ELSE LET analysis == analyzeComponent(code)
             visual   == validateVisualQuality(code)
         IN  validateTypeScriptCode(code).errors
             \o validateAccessibility(code, analysis).errors
             \o validateDesignConsistency(code, analysis).errors
             \o validatePerformance(code, analysis).errors
             \o visual.colorContrastIssues
             \o FlatIssues(visual.responsiveValidation, 1)
             \o validateVisualConsistency(code).issues

\* C24: the error list returned by the scorer contains every ValidationError
\* emitted by every validator that contributed to the returned scores, as
\* many times as it was emitted.
C24_AllErrorsMerged ==
    Scored =>
       \A i \in 1..Len(EmittedErrors) :
          Occurrences(result.errors, EmittedErrors[i])
              >= Occurrences(EmittedErrors, EmittedErrors[i])

----------------------------------------------------------------------------
(* Claims about the component analysis                                     *)

\* the analysis validateComponentQuality computed for the code it scored
Analysis == analyzeComponent(code)

\* C25: analyzeComponent returns tailwindClasses as a deduplicated set: no
\* class token appears in it more than once, so the styling term of
\* complexityScore counts distinct tokens only.
C25_ClassesDeduplicated ==
    (Scored /\ result.path = "validateComponentQuality") =>
       /\ \A i, j \in 1..Len(Analysis.tailwindClasses) :
             Analysis.tailwindClasses[i] = Analysis.tailwindClasses[j] => i = j
       /\ Len(Analysis.tailwindClasses)
             = Cardinality({Analysis.tailwindClasses[i] :
                               i \in 1..Len(Analysis.tailwindClasses)})

----------------------------------------------------------------------------
(* Claims about the suitability of the strategy returned                   *)

\* some catalog strategy targets the context's component type, or 'all'
SomeStrategySuitable ==
    \E i \in 1..Len(strategies) : IsSuitable(strategies[i], context.componentType)

\* C26: whenever at least one catalog strategy targets context.componentType
\* (or 'all'), the strategy returned by selectOptimalPromptStrategy targets
\* it too, on the recovery path, the priority-weight path and the fallback.
C26_ReturnedTargetsType ==
    (chosen # "none" /\ SomeStrategySuitable) =>
       \E i \in 1..Len(strategies) :
          /\ strategies[i].id = chosen
          /\ IsSuitable(strategies[i], context.componentType)

----------------------------------------------------------------------------
(* Claims about the user rating average                                    *)

\* the ratings supplied in the updates of strategy id, in order
RatingsOf(id) ==
    LET rated == SelectSeq(StrategyLogOf(id), LAMBDA o : o.userRating # NoRating)
    IN  [j \in 1..Len(rated) |-> I(rated[j].userRating[1])]

\* C29: after any sequence of updates of a strategy, some with a userRating
\* and some without, avgUserRating is the arithmetic mean of exactly the
\* ratings supplied, and 0 while none was supplied.
C29_RatingAverageIsMean ==
    \A i \in 1..Len(strategies) :
        LET ratings == RatingsOf(strategies[i].id)
        IN  strategies[i].successMetrics.avgUserRating =
               (IF ratings = <<>> THEN Zero ELSE Mean(ratings))

----------------------------------------------------------------------------
(* Claims about selection and accumulated strategy performance            *)

\* catalogs a and b differ at most in their strategies' successMetrics
SameButMetrics(a, b) ==
    /\ Len(a) = Len(b)
    /\ \A i \in 1..Len(a) :
          /\ a[i].id = b[i].id
          /\ a[i].targetComponentTypes = b[i].targetComponentTypes

\* C27: for one context, two catalogs that differ only in successMetrics make
\* selectOptimalPromptStrategy return the same strategy id: the updates of
\* updateStrategyPerformance between two calls do not change the selection.
C27_IndependentOfMetrics ==
    (chosen # "none" /\ result # NoResult /\ SameButMetrics(result.catalog, strategies)) =>
       chosen = result.strategy

\* C27 witness: the strategy returned by the first call was then recorded a
\* failed generation, and the second call returned it again
C27_Witness ==
    /\ chosen # "none"
    /\ result # NoResult
    /\ result.strategy = "quality-first"
    /\ result.catalog # strategies
    /\ strategies[1].successMetrics.generationCount > 0
    /\ strategies[1].successMetrics.successRate = Zero
    /\ chosen = "quality-first"

----------------------------------------------------------------------------
(* Claims about the closed feedback loop                                   *)

\* C28: in the closed loop that starts from an empty ledger, every call of
\* selectOptimalAIProvider returns 'vercel', for any sequence of scores and
\* contexts, and no other provider ever gets a ledger entry.
C28_LoopStaysOnDefault ==
    /\ result # NoResult => result.provider = "vercel"
    /\ \A i \in 1..Len(providerPerformance) : providerPerformance[i].provider = "vercel"
    /\ \A i \in 1..Len(observed) : observed[i].provider = "vercel"

\* C28 witness: after more than ColdStartCount cycles the entry of 'vercel' is
\* ranked, and the next call returned 'vercel' from the sorted list
C28_Witness ==
    /\ requests # <<>>
    /\ requests[1].pc = "feedback"
    /\ Len(observed) > ColdStartCount
    /\ Len(providerPerformance) = 1
    /\ providerPerformance[1].generationCount > ColdStartCount
    /\ result.provider = "vercel"

----------------------------------------------------------------------------
(* Claims about prompt enhancement                                         *)

\* the user prompt built carries the 'IMPROVEMENT FOCUS' section
HasImprovementFocus ==
    \E i \in 1..Len(result.userPrompt) : result.userPrompt[i].section = "IMPROVEMENT FOCUS"

\* selectOptimalPromptStrategy treats the most recent attempt as poor quality
SelectorSeesPoorAttempt ==
    LastAttempt(context).qualityScore.overall
        < context.userQualityPreferences.minAcceptableScore

\* C30: for every context with previous attempts, enhancePromptWithContext
\* appends the 'IMPROVEMENT FOCUS' section exactly when the most recent
\* attempt's overall is below minAcceptableScore, which is when the strategy
\* selector treats that attempt as poor quality.
C30_FocusWhenUnacceptable ==
    (result # NoResult /\ context.previousAttempts # <<>>) =>
       (HasImprovementFocus <=> SelectorSeesPoorAttempt)

====
